---- MODULE Spec2Model ----
(***************************************************************************)
(* Model of the request handlers of the social-media application: the     *)
(* cursor pagers (for-you feed, user posts, search, bookmarks, comments), *)
(* the search query builder, the viewer-scoped projections (like info,    *)
(* follower info, bookmark info, user lookup) and the relation writes     *)
(* (like, follow, bookmark) with their notifications, over the relational *)
(* store reached through Prisma; and, beside the handlers, the module     *)
(* that constructs the Prisma client, validateRequest with its session    *)
(* cookie, and the useDebounce hook of the search field.                  *)
(***************************************************************************)
EXTENDS Integers, Sequences, FiniteSets, TLC

VARIABLES
    post,          \* Post table: set of rows [id, userId, createdAt, words]
    comment,       \* Comment table: set of rows [id, postId, userId, createdAt]
    bookmark,      \* Bookmark table: set of rows [id, userId, postId, createdAt]
    like,          \* Like table: set of rows [userId, postId, n]
    follow,        \* Follow table: set of rows [followerId, followingId, n]
    notification,  \* Notification table: set of rows [issuerId, recipientId, postId, type, n]
    clock,         \* rows created so far in tables with an id and createdAt of their own
    tiebreak,      \* the order in which the store returns rows of equal createdAt
    version,       \* writes committed so far that changed a table
    scope,         \* the route files the requests of this behaviour go to
    reqs,          \* the requests in flight or ended, in order of arrival
    walk,          \* a client following nextCursor through one pager
    globalThis,    \* the process: NODE_ENV, prismaGlobal, the clients constructed
    auth,          \* one call of validateRequest: its cookie, its steps, its result
    hook           \* one component using useDebounce: value, debouncedValue, timer

vars == <<post, comment, bookmark, like, follow, notification, clock, tiebreak, version,
          scope, reqs, walk, globalThis, auth, hook>>

\* what the route handlers and the walks leave alone
outside == <<globalThis, auth, hook>>

store == <<post, comment, bookmark, like, follow, notification, clock, tiebreak, version>>

----------------------------------------------------------------------------
(* Bounds of the model *)

MaxPosts == 22      \* posts created before a cursor walk starts
MaxReqs == 2        \* requests that arrive in one behaviour
MaxRows == 12       \* rows created before a walk over ties or stale cursors starts
MaxPages == 4       \* pages a client asks for in one walk
MaxInserts == 2     \* posts created while a walk is under way

(* Program constants *)

feedPageSize == 10
commentsPageSize == 5

\* the values of globalThis, auth and hook in the behaviours that are about
\* the handlers only
NoProcess == [NODE_ENV |-> "production"]
NoCall == [pc |-> "idle"]
NoHook == [mounted |-> FALSE]

----------------------------------------------------------------------------
(* Identifiers.  Prisma ids are opaque strings; a row id is modelled as a   *)
(* pair <<table, n>> so that ids of different tables never coincide and no  *)
(* order on ids is available to the handlers.                              *)

Users == {"u1", "u2"}
NoUser == "null"                 \* validateRequest(): user = null
NoCursor == <<"none", 0>>        \* cursor undefined in a request, null in a response
PostId(i) == <<"p", i>>
BookmarkId(i) == <<"b", i>>
CommentId(i) == <<"c", i>>
MissingPost == <<"p", 0>>        \* an id that names no post

Min(a, b) == IF a <= b THEN a ELSE b
Max(a, b) == IF a >= b THEN a ELSE b

RECURSIVE Concat(_)
Concat(ss) == IF ss = <<>> THEN <<>> ELSE Head(ss) \o Concat(Tail(ss))

SeqToSet(s) == {s[i] : i \in 1..Len(s)}

NoDup(s) == \A i, j \in 1..Len(s) : s[i] = s[j] => i = j

----------------------------------------------------------------------------
(* The ordered, bounded fetch of the store: prisma.<table>.findMany with    *)
(* where / orderBy createdAt / take / cursor.                              *)

\* posts.slice(0, n)
Slice(s, n) == SubSeq(s, 1, Min(n, Len(s)))

\* mutant: orderBy ignores the direction asked for
BeforeAscending(r, q, dir) == r.createdAt <= q.createdAt

\* r comes no later than q under orderBy: { createdAt: dir }
Before(r, q, dir) ==
    IF dir = "desc" THEN r.createdAt >= q.createdAt ELSE r.createdAt <= q.createdAt

\* orderBy names createdAt alone: among rows of equal createdAt the store
\* returns r before q in an order of its own, here by row number either way
TieFirst(r, q) == IF tiebreak = "asc" THEN r.id[2] <= q.id[2] ELSE r.id[2] >= q.id[2]

\* orderBy: { createdAt: dir } over the rows that passed `where`
RECURSIVE OrderBy(_, _)
OrderBy(rows, dir) ==
    IF rows = {} THEN <<>>
    ELSE LET first == CHOOSE r \in rows :
                          \A q \in rows : /\ Before(r, q, dir)
                                          /\ Before(q, r, dir) => TieFirst(r, q)
         IN  <<first>> \o OrderBy(rows \ {first}, dir)

\* mutant: skip: 1, the fetch starts after the row the cursor names
FromCursorExclusive(rows, table, dir, cursor) ==
    IF cursor = NoCursor THEN rows
    ELSE LET anchor == {a \in table : a.id = cursor}
         IN  {r \in rows : \E a \in anchor : Before(a, r, dir) /\ r.id # a.id}

\* cursor: { id: cursor }: the fetch starts AT the row the cursor names (no
\* skip is given), positioned by its orderBy value; a cursor that names no row
\* of the table selects nothing.
FromCursor(rows, table, dir, cursor) ==
    IF cursor = NoCursor THEN rows
    ELSE LET anchor == {a \in table : a.id = cursor}
         IN  {r \in rows : \E a \in anchor : Before(a, r, dir)}

\* mutant: the cursor is not passed on to the store
FindManyNoCursor(rows, table, dir, take, cursor) ==
    Slice(OrderBy(rows, dir), take)

FindMany(rows, table, dir, take, cursor) ==
    Slice(OrderBy(FromCursor(rows, table, dir, cursor), dir), take)

----------------------------------------------------------------------------
(* Search query builder and the text-search match of the store.  A string  *)
(* is a sequence of one-character strings.                                 *)

\* q.split(" "): the pieces between single spaces, empty pieces included
RECURSIVE SplitSpace(_)
SplitSpace(q) ==
    IF \A i \in 1..Len(q) : q[i] # " " THEN <<q>>
    ELSE LET k == CHOOSE i \in 1..Len(q) : q[i] = " " /\ \A j \in 1..(i - 1) : q[j] # " "
         IN  <<SubSeq(q, 1, k - 1)>> \o SplitSpace(SubSeq(q, k + 1, Len(q)))

\* terms.join(" & ")
RECURSIVE JoinAnd(_)
JoinAnd(terms) ==
    IF Len(terms) = 0 THEN <<>>
    ELSE IF Len(terms) = 1 THEN terms[1]
    ELSE terms[1] \o <<" ", "&", " ">> \o JoinAnd(Tail(terms))

\* const searchQuery = q.split(" ").join(" & ")
SearchQuery(q) == JoinAnd(SplitSpace(q))

\* { search: searchQuery } on a text column holding the words `text`: every
\* lexeme of the query occurs in the column; a query without lexemes matches
\* no row.
Lexemes(searchQuery) == SeqToSet(searchQuery) \ {" ", "&"}
TextSearch(text, searchQuery) ==
    Lexemes(searchQuery) # {} /\ Lexemes(searchQuery) \subseteq text

\* User table: fixed rows; displayName and username are one word each
displayName == [u \in Users |-> IF u = "u1" THEN "x" ELSE "b"]
username == [u \in Users |-> IF u = "u1" THEN "Y" ELSE "z"]

\* case folding of the one-letter words in use
Lower(w) == IF w = "Y" THEN "y" ELSE IF w = "Z" THEN "z" ELSE w

----------------------------------------------------------------------------
(* Viewer-scoped projection: getUserDataSelect / getPostDataInclude.       *)

\* followers: { where: { followerId: loggedInUserId } } and _count.followers
UserData(userId, loggedInUserId) ==
    [ id |-> userId,
      followers |-> {f \in follow : f.followingId = userId /\ f.followerId = loggedInUserId},
      followerCount |-> Cardinality({f \in follow : f.followingId = userId}),
      postCount |-> Cardinality({p \in post : p.userId = userId}) ]

\* likes / bookmarks: { where: { userId: loggedInUserId } }, _count.likes and
\* _count.comments
PostData(p, loggedInUserId) ==
    [ id |-> p.id,
      user |-> UserData(p.userId, loggedInUserId),
      likes |-> {l \in like : l.postId = p.id /\ l.userId = loggedInUserId},
      bookmarks |-> {b \in bookmark : b.postId = p.id /\ b.userId = loggedInUserId},
      likeCount |-> Cardinality({l \in like : l.postId = p.id}),
      commentCount |-> Cardinality({c \in comment : c.postId = p.id}) ]

----------------------------------------------------------------------------
(* The pager handlers.  A response is                                       *)
(*   [status, fetched, page, posts, nextCursor, queries]                    *)
(* fetched: ids of the rows findMany returned; page: ids of the rows kept;  *)
(* posts: the projected posts of the body; queries: store calls issued.     *)
(* fault: "none", or the call that throws inside the handler's try block:   *)
(* "auth" (validateRequest) or "store" (the prisma call).                  *)

Ids(rowSeq) == [i \in 1..Len(rowSeq) |-> rowSeq[i].id]

InternalError ==
    [status |-> 500, fetched |-> <<>>, page |-> <<>>, posts |-> <<>>,
     nextCursor |-> NoCursor, queries |-> 0]

Unauthorized ==
    [status |-> 401, fetched |-> <<>>, page |-> <<>>, posts |-> <<>>,
     nextCursor |-> NoCursor, queries |-> 0]

\* mutant: a full page is taken for evidence of a further one
NextCursorFullPage(rowSeq, pageSize) ==
    IF Len(rowSeq) >= pageSize THEN rowSeq[pageSize].id ELSE NoCursor

\* nextCursor = rows.length > pageSize ? rows[pageSize].id : null
NextCursor(rowSeq, pageSize) ==
    IF Len(rowSeq) > pageSize THEN rowSeq[pageSize + 1].id ELSE NoCursor

\* mutant: the body is not trimmed to the page size
PostsPageUntrimmed(rowSeq, postSeq, pageSize) ==
    [status |-> 200, fetched |-> Ids(rowSeq), page |-> Ids(rowSeq), posts |-> postSeq,
     nextCursor |-> NextCursor(rowSeq, pageSize), queries |-> 1]

\* { posts: rows.slice(0, pageSize), nextCursor }
PostsPage(rowSeq, postSeq, pageSize) ==
    [status |-> 200, fetched |-> Ids(rowSeq),
     page |-> Ids(Slice(rowSeq, pageSize)),
     posts |-> Slice(postSeq, pageSize),
     nextCursor |-> NextCursor(rowSeq, pageSize), queries |-> 1]

\* GET /api/posts/for-you
ForYouGET(user, cursor, fault) ==
    IF fault = "auth" THEN InternalError
    ELSE IF user = NoUser THEN Unauthorized
    ELSE IF fault = "store" THEN [InternalError EXCEPT !.queries = 1]
    ELSE LET posts == FindMany(post, post, "desc", feedPageSize + 1, cursor)
         IN  PostsPage(posts, [i \in 1..Len(posts) |-> PostData(posts[i], user)],
                       feedPageSize)

\* mutant: where: { userId } is left out of a fetch that has a cursor
UserPostsGETCursorUnfiltered(user, userId, cursor, fault) ==
    IF fault = "auth" THEN InternalError
    ELSE IF user = NoUser THEN Unauthorized
    ELSE IF fault = "store" THEN [InternalError EXCEPT !.queries = 1]
    ELSE LET posts == FindMany({p \in post : cursor # NoCursor \/ p.userId = userId}, post,
                               "desc", feedPageSize + 1, cursor)
         IN  PostsPage(posts, [i \in 1..Len(posts) |-> PostData(posts[i], user)],
                       feedPageSize)

\* GET /api/users/[userId]/posts
UserPostsGET(user, userId, cursor, fault) ==
    IF fault = "auth" THEN InternalError
    ELSE IF user = NoUser THEN Unauthorized
    ELSE IF fault = "store" THEN [InternalError EXCEPT !.queries = 1]
    ELSE LET posts == FindMany({p \in post : p.userId = userId}, post, "desc",
                               feedPageSize + 1, cursor)
         IN  PostsPage(posts, [i \in 1..Len(posts) |-> PostData(posts[i], user)],
                       feedPageSize)

\* GET /api/search
SearchGET(user, q, cursor, fault) ==
    IF fault = "auth" THEN InternalError
    ELSE IF user = NoUser THEN Unauthorized
    ELSE IF fault = "store" THEN [InternalError EXCEPT !.queries = 1]
    ELSE LET searchQuery == SearchQuery(q)
             posts == FindMany({p \in post :
                                   \/ TextSearch(p.words, searchQuery)
                                   \/ TextSearch({Lower(displayName[p.userId])}, searchQuery)
                                   \/ TextSearch({Lower(username[p.userId])}, searchQuery)},
                               post, "desc", feedPageSize + 1, cursor)
         IN  PostsPage(posts, [i \in 1..Len(posts) |-> PostData(posts[i], user)],
                       feedPageSize)

\* bookmark.post of the include
PostOf(b) == CHOOSE p \in post : p.id = b.postId

\* GET /api/posts/bookmarked
BookmarksGET(user, cursor, fault) ==
    IF fault = "auth" THEN InternalError
    ELSE IF user = NoUser THEN Unauthorized
    ELSE IF fault = "store" THEN [InternalError EXCEPT !.queries = 1]
    ELSE LET bookmarks == FindMany({b \in bookmark : b.userId = user}, bookmark, "desc",
                                   feedPageSize + 1, cursor)
         IN  PostsPage(bookmarks,
                       [i \in 1..Len(bookmarks) |-> PostData(PostOf(bookmarks[i]), user)],
                       feedPageSize)

\* getCommentDataInclude: the comment with its author as the viewer sees them
CommentData(c, loggedInUserId) ==
    [ id |-> c.id, user |-> UserData(c.userId, loggedInUserId) ]

\* mutant: previousCursor is the id of the last comment of the page
CommentsPageLastOfPage(rowSeq, commentSeq, pageSize) ==
    [status |-> 200, fetched |-> Ids(rowSeq),
     page |-> Ids(Slice(rowSeq, pageSize)),
     comments |-> Slice(commentSeq, pageSize),
     previousCursor |-> IF Len(rowSeq) > pageSize THEN rowSeq[pageSize].id ELSE NoCursor,
     queries |-> 1]

\* { comments: comments.slice(0, pageSize), previousCursor: nextCursor }
CommentsPage(rowSeq, commentSeq, pageSize) ==
    [status |-> 200, fetched |-> Ids(rowSeq),
     page |-> Ids(Slice(rowSeq, pageSize)),
     comments |-> Slice(commentSeq, pageSize),
     previousCursor |-> NextCursor(rowSeq, pageSize), queries |-> 1]

\* mutant: the store rejects a cursor that names no comment
CommentsGETRejectingCursor(user, postId, cursor, fault) ==
    IF fault = "auth" THEN InternalError
    ELSE IF user = NoUser THEN Unauthorized
    ELSE IF fault = "store" \/ (cursor # NoCursor /\ \A c \in comment : c.id # cursor)
    THEN [InternalError EXCEPT !.queries = 1]
    ELSE LET comments == FindMany({c \in comment : c.postId = postId}, comment, "asc",
                                  commentsPageSize + 1, cursor)
         IN  CommentsPage(comments,
                          [i \in 1..Len(comments) |-> CommentData(comments[i], user)],
                          commentsPageSize)

\* GET /api/posts/[postId]/comments
CommentsGET(user, postId, cursor, fault) ==
    IF fault = "auth" THEN InternalError
    ELSE IF user = NoUser THEN Unauthorized
    ELSE IF fault = "store" THEN [InternalError EXCEPT !.queries = 1]
    ELSE LET comments == FindMany({c \in comment : c.postId = postId}, comment, "asc",
                                  commentsPageSize + 1, cursor)
         IN  CommentsPage(comments,
                          [i \in 1..Len(comments) |-> CommentData(comments[i], user)],
                          commentsPageSize)

\* the items and the continuation cursor of a page body, under either naming
ItemsOf(res) == IF "comments" \in DOMAIN res THEN res.comments ELSE res.posts
CursorOf(res) == IF "previousCursor" \in DOMAIN res THEN res.previousCursor ELSE res.nextCursor

----------------------------------------------------------------------------
(* A client walking one pager: the first GET, then one GET per returned    *)
(* nextCursor (previousCursor for comments) until it is null.              *)

Sites == {"for-you", "user-posts", "search", "bookmarks"}
Queries == {<<"a">>, <<"a", " ", "c">>, <<"b">>, <<>>}
NoArg == <<>>

PagerArgs(site) ==
    IF site = "user-posts" THEN Users
    ELSE IF site = "search" THEN Queries
    ELSE {NoArg}

\* the table whose ids the site's cursor names
CursorTable(site) ==
    IF site = "bookmarks" THEN bookmark ELSE IF site = "comments" THEN comment ELSE post

PageSizeOf(site) == IF site = "comments" THEN commentsPageSize ELSE feedPageSize

PagerGET(site, user, arg, cursor, fault) ==
    IF site = "for-you" THEN ForYouGET(user, cursor, fault)
    ELSE IF site = "user-posts" THEN UserPostsGET(user, arg, cursor, fault)
    ELSE IF site = "search" THEN SearchGET(user, arg, cursor, fault)
    ELSE IF site = "comments" THEN CommentsGET(user, arg, cursor, fault)
    ELSE BookmarksGET(user, cursor, fault)

IdleWalk ==
    [state |-> "idle", site |-> "for-you", user |-> NoUser, arg |-> NoArg,
     start |-> NoCursor, cursor |-> NoCursor, stale |-> FALSE, resp |-> Unauthorized,
     pages |-> <<>>, items |-> <<>>, search |-> <<>>, began |-> 0]

\* the walk after the response to GET ?cursor=<cursor>; stale: the cursor
\* named no row of the table when the request was answered
Follow(w, cursor, res) ==
    [w EXCEPT !.cursor = cursor, !.resp = res,
              !.stale = cursor # NoCursor /\ \A r \in CursorTable(w.site) : r.id # cursor,
              !.state = IF res.status # 200 THEN "refused"
                        ELSE IF CursorOf(res) = NoCursor THEN "done" ELSE "open",
              !.pages = IF res.status = 200 THEN Append(@, res.page) ELSE @,
              !.items = IF res.status = 200
                        THEN Append(@, [i \in 1..Len(ItemsOf(res)) |-> ItemsOf(res)[i].id])
                        ELSE @]

WalkStart(site, user, arg, start) ==
    /\ walk.state = "idle"
    /\ walk' = Follow([IdleWalk EXCEPT !.site = site, !.user = user, !.arg = arg,
                                       !.start = start, !.began = clock],
                      start, PagerGET(site, user, arg, start, "none"))
    /\ UNCHANGED <<store, scope, outside, reqs>>

WalkNext ==
    /\ walk.state = "open"
    /\ Len(walk.pages) < MaxPages
    /\ walk' = Follow(walk, CursorOf(walk.resp),
                      PagerGET(walk.site, walk.user, walk.arg, CursorOf(walk.resp), "none"))
    /\ UNCHANGED <<store, scope, outside, reqs>>

(* The collections a walk runs over: n posts, each bookmarked by one user. *)

Orders == {"asc", "desc", "rot"}
Patterns == {"all", "odd"}

\* pairwise distinct creation times of rows 1..n
CreatedAt(order, n, i) ==
    IF order = "asc" THEN i
    ELSE IF order = "desc" THEN n + 1 - i
    ELSE ((i + 2) % n) + 1

OwnerOf(pat, i) == IF pat = "all" \/ i % 2 = 1 THEN "u1" ELSE "u2"
WordsOf(pat, i) == IF pat = "all" THEN {"a", "c"} ELSE IF i % 2 = 1 THEN {"a"} ELSE {"c"}

InitPager ==
    /\ \E n \in 0..MaxPosts, order \in Orders, pat \in Patterns :
          /\ post = {[id |-> PostId(i), userId |-> OwnerOf(pat, i),
                      createdAt |-> CreatedAt(order, n, i), words |-> WordsOf(pat, i)]
                     : i \in 1..n}
          /\ bookmark = {[id |-> BookmarkId(i), userId |-> OwnerOf(pat, i),
                          postId |-> PostId(i),
                          createdAt |-> n + 1 - CreatedAt(order, n, i)]
                         : i \in 1..n}
          /\ clock = n
    /\ comment = {}
    /\ tiebreak = "asc"
    /\ version = 0
    /\ like = {}
    /\ follow = {}
    /\ notification = {}
    /\ scope = "walk"
    /\ reqs = <<>>
    /\ globalThis = NoProcess
    /\ auth = NoCall
    /\ hook = NoHook
    /\ walk = IdleWalk

NextPager ==
    \/ \E site \in Sites, user \in Users \cup {NoUser} :
          \E arg \in PagerArgs(site),
             start \in {NoCursor} \cup {r.id : r \in CursorTable(site)} :
             WalkStart(site, user, arg, start)
    \/ WalkNext

SpecPager == InitPager /\ [][NextPager]_vars

----------------------------------------------------------------------------
(* The writes of the store.  The tables a handler writes are handled as one *)
(* record db = [like, follow, bookmark, notification, clock].               *)

DB == [like |-> like, follow |-> follow, bookmark |-> bookmark,
       notification |-> notification, clock |-> clock]

NoPost == <<"none", 0>>     \* postId of a FOLLOW notification
AnyPost == <<"any", 0>>     \* a deleteMany whose where names no postId

\* the statements the handlers issue
LikeUpsert(userId, postId) == [op |-> "like.upsert", userId |-> userId, postId |-> postId]
LikeDeleteMany(userId, postId) ==
    [op |-> "like.deleteMany", userId |-> userId, postId |-> postId]
FollowUpsert(followerId, followingId) ==
    [op |-> "follow.upsert", followerId |-> followerId, followingId |-> followingId]
FollowDeleteMany(followerId, followingId) ==
    [op |-> "follow.deleteMany", followerId |-> followerId, followingId |-> followingId]
BookmarkUpsert(userId, postId) ==
    [op |-> "bookmark.upsert", userId |-> userId, postId |-> postId]
BookmarkDeleteMany(userId, postId) ==
    [op |-> "bookmark.deleteMany", userId |-> userId, postId |-> postId]
NotificationCreate(issuerId, recipientId, postId, type) ==
    [op |-> "notification.create", issuerId |-> issuerId, recipientId |-> recipientId,
     postId |-> postId, type |-> type]
NotificationDeleteMany(issuerId, recipientId, postId, type) ==
    [op |-> "notification.deleteMany", issuerId |-> issuerId, recipientId |-> recipientId,
     postId |-> postId, type |-> type]

\* a row number not used by the rows `same` (rows that agree on every column)
FreshN(same) == 1 + Cardinality(same)

LikeRows(db, userId, postId) == {l \in db.like : l.userId = userId /\ l.postId = postId}
FollowRows(db, followerId, followingId) ==
    {f \in db.follow : f.followerId = followerId /\ f.followingId = followingId}
BookmarkRows(db, userId, postId) ==
    {b \in db.bookmark : b.userId = userId /\ b.postId = postId}
NotificationRows(db, issuerId, recipientId, postId, type) ==
    {x \in db.notification : /\ x.issuerId = issuerId /\ x.recipientId = recipientId
                             /\ (postId = AnyPost \/ x.postId = postId)
                             /\ x.type = type}

\* create: {...}: one more row
Create(db, s) ==
    IF s.op = "like.upsert"
    THEN [db EXCEPT !.like = @ \cup
            {[userId |-> s.userId, postId |-> s.postId,
              n |-> FreshN(LikeRows(db, s.userId, s.postId))]}]
    ELSE IF s.op = "follow.upsert"
    THEN [db EXCEPT !.follow = @ \cup
            {[followerId |-> s.followerId, followingId |-> s.followingId,
              n |-> FreshN(FollowRows(db, s.followerId, s.followingId))]}]
    ELSE IF s.op = "bookmark.upsert"
    THEN [db EXCEPT !.bookmark = @ \cup
            {[id |-> BookmarkId(db.clock + 1), userId |-> s.userId, postId |-> s.postId,
              createdAt |-> db.clock + 1]},
                    !.clock = @ + 1]
    ELSE [db EXCEPT !.notification = @ \cup
            {[issuerId |-> s.issuerId, recipientId |-> s.recipientId, postId |-> s.postId,
              type |-> s.type,
              n |-> FreshN(NotificationRows(db, s.issuerId, s.recipientId, s.postId, s.type))]}]

\* mutant: create instead of upsert, a further row for a pair that has one
UpsertAlwaysCreates(db, s) == Create(db, s)

\* upsert({ where: <unique pair>, create: {...}, update: {} })
Upsert(db, s) ==
    IF \/ s.op = "like.upsert" /\ LikeRows(db, s.userId, s.postId) # {}
       \/ s.op = "follow.upsert" /\ FollowRows(db, s.followerId, s.followingId) # {}
       \/ s.op = "bookmark.upsert" /\ BookmarkRows(db, s.userId, s.postId) # {}
    THEN db
    ELSE Create(db, s)

\* mutant: of the matching notification rows only one goes
DeleteManyOneRow(db, s) ==
    IF s.op = "like.deleteMany"
    THEN [db EXCEPT !.like = @ \ LikeRows(db, s.userId, s.postId)]
    ELSE IF s.op = "follow.deleteMany"
    THEN [db EXCEPT !.follow = @ \ FollowRows(db, s.followerId, s.followingId)]
    ELSE IF s.op = "bookmark.deleteMany"
    THEN [db EXCEPT !.bookmark = @ \ BookmarkRows(db, s.userId, s.postId)]
    ELSE LET rows == NotificationRows(db, s.issuerId, s.recipientId, s.postId, s.type)
         IN  [db EXCEPT !.notification =
                 IF rows = {} THEN @ ELSE @ \ {CHOOSE x \in rows : TRUE}]

\* deleteMany({ where: {...} }): every matching row goes
DeleteMany(db, s) ==
    IF s.op = "like.deleteMany"
    THEN [db EXCEPT !.like = @ \ LikeRows(db, s.userId, s.postId)]
    ELSE IF s.op = "follow.deleteMany"
    THEN [db EXCEPT !.follow = @ \ FollowRows(db, s.followerId, s.followingId)]
    ELSE IF s.op = "bookmark.deleteMany"
    THEN [db EXCEPT !.bookmark = @ \ BookmarkRows(db, s.userId, s.postId)]
    ELSE [db EXCEPT !.notification =
            @ \ NotificationRows(db, s.issuerId, s.recipientId, s.postId, s.type)]

\* the effect of one statement on the tables
ApplyStmt(db, s) ==
    IF s.op \in {"like.upsert", "follow.upsert", "bookmark.upsert"} THEN Upsert(db, s)
    ELSE IF s.op = "notification.create" THEN Create(db, s)
    ELSE DeleteMany(db, s)

RECURSIVE ApplyAll(_, _)
ApplyAll(db, stmts) ==
    IF stmts = <<>> THEN db ELSE ApplyAll(ApplyStmt(db, Head(stmts)), Tail(stmts))

(* A batch $transaction([...]): the statements run inside one store        *)
(* transaction t = [db, tx, applied]; tx holds the statements executed but  *)
(* not yet committed, applied counts the statements whose effect the       *)
(* committed tables hold.                                                  *)

\* mutant: no transaction, every statement is committed as it is executed
ExecAutocommit(t, s) == [t EXCEPT !.db = ApplyStmt(@, s), !.applied = @ + 1]

\* one statement executed inside the transaction
ExecInTx(t, s) == [t EXCEPT !.tx = Append(@, s)]

RECURSIVE ExecAll(_, _)
ExecAll(t, stmts) ==
    IF stmts = <<>> THEN t ELSE ExecAll(ExecInTx(t, Head(stmts)), Tail(stmts))

CommitTx(t) ==
    [db |-> ApplyAll(t.db, t.tx), tx |-> <<>>, applied |-> t.applied + Len(t.tx)]

RollbackTx(t) == [t EXCEPT !.tx = <<>>]

\* failAt = 0: every statement succeeds and the transaction commits;
\* failAt = k: statement k throws after statements 1..k-1 were executed
Transaction(db, stmts, failAt) ==
    LET t == [db |-> db, tx |-> <<>>, applied |-> 0]
    IN  IF failAt = 0 THEN CommitTx(ExecAll(t, stmts))
        ELSE RollbackTx(ExecAll(t, SubSeq(stmts, 1, failAt - 1)))

----------------------------------------------------------------------------
(* Requests.  A request is                                                  *)
(*   [ep, user, arg, pc, status, queries, seen, body, stmts, ran, applied,  *)
(*    raced, threw]                                                         *)
(* ep: endpoint; user: what validateRequest returns; arg: the path or query *)
(* parameter; pc: the store call the handler is about to make; queries:     *)
(* store calls issued; seen: what the calls returned so far; body: the      *)
(* response; stmts / ran / applied: statements of its write, how many of    *)
(* them were executed and how many the committed tables hold; raced: a     *)
(* write was committed between its two sub-fetches; seen.at: the version   *)
(* of the store at its first read; threw: the call of the try block that   *)
(* threw, if one did.                                                      *)

MissingUser == "u0"         \* an id that names no user
NoSeen == [count |-> 0, rows |-> {}, owner |-> NoUser, at |-> 0]
NoBody == [error |-> ""]
NoThrow == "nothing"

NewRequest(ep, user, arg) ==
    [ep |-> ep, user |-> user, arg |-> arg, pc |-> "start", status |-> 0, queries |-> 0,
     seen |-> NoSeen, body |-> NoBody, stmts |-> 0, ran |-> 0, applied |-> 0,
     raced |-> FALSE, threw |-> NoThrow]

Respond(r, status, body) == [r EXCEPT !.pc = "done", !.status = status, !.body = body]

\* an awaited call of the try block rejects
Throw(r, call) == [r EXCEPT !.threw = call]

\* mutant: the catch block answers with the message of the error it caught
CaughtLeaking(r) == Respond(r, 500, [error |-> r.threw])

\* catch (error) { ... status: 500 }
Caught(r) == Respond(r, 500, [error |-> "Internal server error"])

\* mutant: the bookmark GET goes on to remove the bookmark it looks for
FirstCallRemoving(ep) ==
    IF ep \in {"likes.GET", "followers.GET", "user.GET"} THEN "count"
    ELSE IF ep \in {"likes.POST", "likes.DELETE"} THEN "find"
    ELSE IF ep \in {"followers.POST", "followers.DELETE", "bookmark.POST", "bookmark.DELETE",
                    "bookmark.GET"}
    THEN "tx"
    ELSE "page"

\* the first store call of each handler
FirstCall(ep) ==
    IF ep \in {"likes.GET", "followers.GET", "user.GET"} THEN "count"
    ELSE IF ep \in {"likes.POST", "likes.DELETE"} THEN "find"
    ELSE IF ep \in {"followers.POST", "followers.DELETE", "bookmark.POST", "bookmark.DELETE"}
    THEN "tx"
    ELSE IF ep = "bookmark.GET" THEN "lookup"
    ELSE "page"

\* mutant: the handler goes on without a logged-in user
ValidateUnchecked(r, fault) ==
    IF fault = "auth" THEN Caught(Throw(r, "validateRequest"))
    ELSE [r EXCEPT !.pc = FirstCall(r.ep)]

\* const { user } = await validateRequest(); if (!user) return 401
Validate(r, fault) ==
    IF fault = "auth" THEN Caught(Throw(r, "validateRequest"))
    ELSE IF r.user = NoUser THEN Respond(r, 401, [error |-> "Unauthorized"])
    ELSE [r EXCEPT !.pc = FirstCall(r.ep)]

Issued(r) == [r EXCEPT !.queries = @ + 1]

\* the request made its first read of the tables now
At(r) == [r EXCEPT !.seen.at = version]

(* likes/route: GET *)

\* mutant: _count.likes is restricted to the viewer like the likes it selects
LikesGET_CountOfViewer(r) ==
    IF ~\E p \in post : p.id = r.arg
    THEN Respond(Issued(r), 404, [error |-> "Post not found"])
    ELSE [Issued(r) EXCEPT
            !.pc = "rel",
            !.seen.count = Cardinality({l \in like : l.postId = r.arg /\ l.userId = r.user})]

\* findUnique({ where: { id: postId } }) with _count.likes
LikesGET_Count(r) ==
    IF ~\E p \in post : p.id = r.arg
    THEN Respond(Issued(r), 404, [error |-> "Post not found"])
    ELSE [Issued(r) EXCEPT !.pc = "rel",
                           !.seen.count = Cardinality({l \in like : l.postId = r.arg})]

\* mutant: isLikedByUser: !post.likes.length
LikesGET_RelNegated(r) ==
    LET likes == {l \in like : l.postId = r.arg /\ l.userId = r.user}
    IN  Respond([r EXCEPT !.seen.rows = likes], 200,
                [likes |-> r.seen.count, isLikedByUser |-> likes = {}])

\* likes: { where: { userId: loggedInUser.id } }, then the LikeInfo
LikesGET_Rel(r) ==
    LET likes == {l \in like : l.postId = r.arg /\ l.userId = r.user}
    IN  Respond([r EXCEPT !.seen.rows = likes], 200,
                [likes |-> r.seen.count, isLikedByUser |-> likes # {}])

(* likes/route: POST and DELETE *)

\* mutant: the handler goes on to its transaction without if (!post)
Likes_FindUnchecked(r) ==
    [Issued(r) EXCEPT !.pc = "tx",
                      !.seen.owner = IF \E p \in post : p.id = r.arg
                                     THEN (CHOOSE p \in post : p.id = r.arg).userId
                                     ELSE NoUser]

\* findUnique({ where: { id: postId }, select: { userId: true } })
Likes_Find(r) ==
    IF ~\E p \in post : p.id = r.arg
    THEN Respond(Issued(r), 404, [error |-> "Post not found"])
    ELSE [Issued(r) EXCEPT !.pc = "tx",
                           !.seen.owner = (CHOOSE p \in post : p.id = r.arg).userId]

LikesPOST_Stmts(r) ==
    <<LikeUpsert(r.user, r.arg)>> \o
    (IF r.user # r.seen.owner
     THEN <<NotificationCreate(r.user, r.seen.owner, r.arg, "LIKE")>>
     ELSE <<>>)

\* mutant: the unlike leaves the notification of the like
LikesDELETE_StmtsLikeOnly(r) == <<LikeDeleteMany(r.user, r.arg)>>

LikesDELETE_Stmts(r) ==
    <<LikeDeleteMany(r.user, r.arg),
      NotificationDeleteMany(r.user, r.seen.owner, r.arg, "LIKE")>>

(* followers/route *)

\* mutant: the count comes from a counter kept in the process, which every
\* follower-info read served so far has incremented
FollowersGET_CountCached(r) ==
    IF r.arg \notin Users
    THEN Respond(Issued(r), 404, [error |-> "User not found"])
    ELSE [Issued(r) EXCEPT
            !.pc = "rel",
            !.seen.count = Cardinality({f \in follow : f.followingId = r.arg})
                           + Cardinality({j \in DOMAIN reqs : /\ reqs[j].ep = "followers.GET"
                                                              /\ reqs[j].queries > 0})]

\* findUnique({ where: { id: userId } }) with _count.followers
FollowersGET_Count(r) ==
    IF r.arg \notin Users
    THEN Respond(Issued(r), 404, [error |-> "User not found"])
    ELSE [Issued(r) EXCEPT !.pc = "rel",
                           !.seen.count = Cardinality({f \in follow : f.followingId = r.arg})]

\* followers: { where: { followerId: loggedInUser.id } }, then the FollowerInfo
FollowersGET_Rel(r) ==
    LET followers == {f \in follow : f.followingId = r.arg /\ f.followerId = r.user}
    IN  Respond([r EXCEPT !.seen.rows = followers], 200,
                [followers |-> r.seen.count, isFollowedByUser |-> followers # {}])

FollowersPOST_Stmts(r) ==
    <<FollowUpsert(r.user, r.arg), NotificationCreate(r.user, r.arg, NoPost, "FOLLOW")>>

FollowersDELETE_Stmts(r) ==
    <<FollowDeleteMany(r.user, r.arg),
      NotificationDeleteMany(r.user, r.arg, AnyPost, "FOLLOW")>>

(* users/username/[username]: GET *)

\* findFirst({ where: { username: { equals, mode: "insensitive" } } }) with _count
UserGET_Count(r) ==
    IF ~\E u \in Users : Lower(username[u]) = Lower(r.arg)
    THEN Respond(Issued(r), 404, [error |-> "User not found"])
    ELSE LET u == CHOOSE u \in Users : Lower(username[u]) = Lower(r.arg)
         IN  [Issued(r) EXCEPT !.pc = "rel", !.seen.owner = u,
                               !.seen.count = Cardinality({f \in follow : f.followingId = u})]

\* followers: { where: { followerId: loggedInUserId } } of getUserDataSelect
UserGET_Rel(r) ==
    LET followers == {f \in follow : f.followingId = r.seen.owner /\ f.followerId = r.user}
    IN  Respond([r EXCEPT !.seen.rows = followers], 200,
                [id |-> r.seen.owner, followers |-> followers,
                 followerCount |-> r.seen.count,
                 postCount |-> Cardinality({p \in post : p.userId = r.seen.owner})])

(* bookmark/route *)

\* bookmark.findUnique({ where: { userId_postId } }), then the BookmarkInfo
BookmarkGET_Lookup(r) ==
    LET found == {b \in bookmark : b.userId = r.user /\ b.postId = r.arg}
    IN  Respond([Issued(r) EXCEPT !.seen.rows = found], 200,
                [isBookmarkedByUser |-> found # {}])

BookmarkPOST_Stmts(r) == <<BookmarkUpsert(r.user, r.arg)>>
BookmarkDELETE_Stmts(r) == <<BookmarkDeleteMany(r.user, r.arg)>>

\* the statements of the write a handler makes
Stmts(r) ==
    IF r.ep = "likes.POST" THEN LikesPOST_Stmts(r)
    ELSE IF r.ep = "likes.DELETE" THEN LikesDELETE_Stmts(r)
    ELSE IF r.ep = "followers.POST" THEN FollowersPOST_Stmts(r)
    ELSE IF r.ep = "followers.DELETE" THEN FollowersDELETE_Stmts(r)
    ELSE IF r.ep = "bookmark.POST" THEN BookmarkPOST_Stmts(r)
    ELSE BookmarkDELETE_Stmts(r)

----------------------------------------------------------------------------
(* Concurrent requests: each handler runs from one store call to the next; *)
(* between two calls of one request any other request may take its steps.  *)

\* the groups of routes whose requests meet in one behaviour; in the last
\* three the store holds relation rows before the first request
SeededScopes == {"liked", "followed", "bookmarked"}
Scopes ==
    {"likes", "unlike", "liked-feed", "followers", "unfollow", "profile", "bookmark",
     "search", "pages"} \cup SeededScopes

Endpoints(sc) ==
    IF sc = "likes" THEN {"likes.GET", "likes.POST"}
    ELSE IF sc = "unlike" THEN {"likes.POST", "likes.DELETE"}
    ELSE IF sc = "liked-feed" THEN {"for-you.GET", "likes.POST"}
    ELSE IF sc = "followers" THEN {"followers.GET", "followers.POST"}
    ELSE IF sc = "unfollow" THEN {"followers.POST", "followers.DELETE"}
    ELSE IF sc = "profile" THEN {"user.GET", "followers.POST"}
    ELSE IF sc = "bookmark"
    THEN {"bookmark.GET", "bookmark.POST", "bookmark.DELETE", "bookmarks.GET"}
    ELSE IF sc = "liked" THEN {"likes.GET", "likes.DELETE"}
    ELSE IF sc = "followed" THEN {"followers.GET", "followers.DELETE"}
    ELSE IF sc = "bookmarked" THEN {"bookmark.GET", "bookmark.DELETE"}
    ELSE IF sc = "search" THEN {"search.GET"}
    ELSE {"user-posts.GET", "comments.GET"}

\* the path or query parameter values tried for an endpoint
Args(ep) ==
    IF ep \in {"likes.GET", "likes.POST", "likes.DELETE", "bookmark.GET", "comments.GET"}
    THEN {PostId(1), MissingPost}
    ELSE IF ep \in {"bookmark.POST", "bookmark.DELETE"} THEN {PostId(1)}
    ELSE IF ep = "followers.GET" THEN Users \cup {MissingUser}
    ELSE IF ep \in {"followers.POST", "followers.DELETE", "user-posts.GET"} THEN Users
    ELSE IF ep = "user.GET" THEN {"y", "Z", "q"}
    ELSE IF ep = "search.GET" THEN Queries
    ELSE {NoArg}

SiteOf(ep) ==
    IF ep = "for-you.GET" THEN "for-you"
    ELSE IF ep = "bookmarks.GET" THEN "bookmarks"
    ELSE IF ep = "search.GET" THEN "search"
    ELSE IF ep = "comments.GET" THEN "comments"
    ELSE "user-posts"

IsWrite(ep) ==
    ep \in {"likes.POST", "likes.DELETE", "followers.POST", "followers.DELETE",
            "bookmark.POST", "bookmark.DELETE"}

\* new Response() of the like and bookmark writes, new Response(null,
\* { status: 204 }) of the follow writes
Success(ep) == IF ep \in {"followers.POST", "followers.DELETE"} THEN 204 ELSE 200

\* what validateRequest() does for a request: it returns a user, returns
\* user = null, or throws
Thrown == "thrown"
Sessions == Users \cup {NoUser, Thrown}

\* a handler reads no parameter before validateRequest() has returned a user
ArgsFor(ep, session) ==
    IF session \in Users THEN Args(ep) ELSE {CHOOSE arg \in Args(ep) : TRUE}

\* the relation tables before the first request: empty, or one like, one
\* follow (each with its notification) and one bookmark
InitialDB(sc) ==
    IF sc \notin SeededScopes
    THEN [like |-> {}, follow |-> {}, bookmark |-> {}, notification |-> {}, clock |-> 0]
    ELSE [like |-> {[userId |-> "u2", postId |-> PostId(1), n |-> 1]},
          follow |-> {[followerId |-> "u1", followingId |-> "u2", n |-> 1]},
          bookmark |-> {[id |-> BookmarkId(1), userId |-> "u1", postId |-> PostId(1),
                         createdAt |-> 1]},
          notification |-> {[issuerId |-> "u2", recipientId |-> "u1", postId |-> PostId(1),
                             type |-> "LIKE", n |-> 1],
                            [issuerId |-> "u1", recipientId |-> "u2", postId |-> NoPost,
                             type |-> "FOLLOW", n |-> 1]},
          clock |-> 1]

\* a request arrives and its handler runs up to its first store call
Arrive(ep, session, arg) ==
    /\ Len(reqs) < MaxReqs
    /\ reqs' = Append(reqs,
                      Validate(NewRequest(ep, session, arg),
                               IF session = Thrown THEN "auth" ELSE "none"))
    /\ UNCHANGED <<store, scope, outside, walk>>

\* the first sub-fetch of a projection: the entity and its count
Count(i, fault) ==
    /\ reqs[i].pc = "count"
    /\ reqs' = [reqs EXCEPT ![i] =
                  IF fault = "store" THEN Caught(Throw(Issued(@), "findUnique"))
                  ELSE IF @.ep = "likes.GET" THEN At(LikesGET_Count(@))
                  ELSE IF @.ep = "followers.GET" THEN At(FollowersGET_Count(@))
                  ELSE At(UserGET_Count(@))]
    /\ UNCHANGED <<store, scope, outside, walk>>

\* the second sub-fetch of a projection: the viewer's relation rows
Rel(i, fault) ==
    /\ reqs[i].pc = "rel"
    /\ reqs' = [reqs EXCEPT ![i] =
                  IF fault = "store" THEN Caught(Throw(@, "findUnique"))
                  ELSE IF @.ep = "likes.GET" THEN LikesGET_Rel(@)
                  ELSE IF @.ep = "followers.GET" THEN FollowersGET_Rel(@)
                  ELSE UserGET_Rel(@)]
    /\ UNCHANGED <<store, scope, outside, walk>>

\* the post lookup of the like POST and DELETE
Find(i, fault) ==
    /\ reqs[i].pc = "find"
    /\ reqs' = [reqs EXCEPT ![i] =
                  IF fault = "store" THEN Caught(Throw(Issued(@), "findUnique"))
                  ELSE Likes_Find(@)]
    /\ UNCHANGED <<store, scope, outside, walk>>

\* the bookmark lookup of the bookmark GET
Lookup(i, fault) ==
    /\ reqs[i].pc = "lookup"
    /\ reqs' = [reqs EXCEPT ![i] =
                  IF fault = "store" THEN Caught(Throw(Issued(@), "findUnique"))
                  ELSE At(BookmarkGET_Lookup(@))]
    /\ UNCHANGED <<store, scope, outside, walk>>

\* the findMany of a page fetch and its response
Page(i, fault) ==
    /\ reqs[i].pc = "page"
    /\ LET r == reqs[i]
           res == PagerGET(SiteOf(r.ep), r.user, r.arg, NoCursor, fault)
       IN  reqs' = [reqs EXCEPT ![i] =
                      IF res.status = 200 THEN At(Respond(Issued(r), 200, res))
                      ELSE Caught(Throw(Issued(r), "findMany"))]
    /\ UNCHANGED <<store, scope, outside, walk>>

\* a write committed while request r is between its two sub-fetches
Overtaken(r, changed) == IF changed /\ r.pc = "rel" THEN [r EXCEPT !.raced = TRUE] ELSE r

\* the $transaction (or the single upsert / deleteMany) of a write handler
Tx(i, failAt) ==
    /\ reqs[i].pc = "tx"
    /\ LET r == reqs[i]
           t == Transaction(DB, Stmts(r), failAt)
           ended == [r EXCEPT !.queries = @ + 1, !.stmts = Len(Stmts(r)),
                              !.ran = IF failAt = 0 THEN Len(Stmts(r)) ELSE failAt - 1,
                              !.applied = t.applied]
       IN  /\ like' = t.db.like
           /\ follow' = t.db.follow
           /\ bookmark' = t.db.bookmark
           /\ notification' = t.db.notification
           /\ clock' = t.db.clock
           /\ version' = IF t.db # DB THEN version + 1 ELSE version
           /\ reqs' = [j \in DOMAIN reqs |->
                         IF j = i
                         THEN IF failAt = 0 THEN Respond(ended, Success(r.ep), NoBody)
                              ELSE Caught(Throw(ended, "$transaction"))
                         ELSE Overtaken(reqs[j], t.db # DB)]
    /\ UNCHANGED <<post, comment, tiebreak, scope, outside, walk>>

Init ==
    /\ post = {[id |-> PostId(1), userId |-> "u1", createdAt |-> 1, words |-> {"a"}],
               [id |-> PostId(2), userId |-> "u2", createdAt |-> 2, words |-> {"c"}]}
    /\ comment = {[id |-> CommentId(1), postId |-> PostId(1), userId |-> "u2", createdAt |-> 1],
                  [id |-> CommentId(2), postId |-> PostId(1), userId |-> "u1", createdAt |-> 2]}
    /\ scope \in Scopes
    /\ bookmark = InitialDB(scope).bookmark
    /\ like = InitialDB(scope).like
    /\ follow = InitialDB(scope).follow
    /\ notification = InitialDB(scope).notification
    /\ clock = InitialDB(scope).clock
    /\ tiebreak = "asc"
    /\ version = 0
    /\ reqs = <<>>
    /\ globalThis = NoProcess
    /\ auth = NoCall
    /\ hook = NoHook
    /\ walk = IdleWalk

Faults == {"none", "store"}

Next ==
    \/ \E ep \in Endpoints(scope), session \in Sessions :
          \E arg \in ArgsFor(ep, session) : Arrive(ep, session, arg)
    \/ \E i \in DOMAIN reqs, fault \in Faults : Count(i, fault)
    \/ \E i \in DOMAIN reqs, fault \in Faults : Rel(i, fault)
    \/ \E i \in DOMAIN reqs, fault \in Faults : Find(i, fault)
    \/ \E i \in DOMAIN reqs, fault \in Faults : Lookup(i, fault)
    \/ \E i \in DOMAIN reqs, fault \in Faults : Page(i, fault)
    \/ \E i \in DOMAIN reqs : \E failAt \in 0..Len(Stmts(reqs[i])) : Tx(i, failAt)

Spec == Init /\ [][Next]_vars

----------------------------------------------------------------------------
(* Walks at the edges of the pager contract: rows that share a createdAt,   *)
(* cursors that name no row (never issued, or deleted since they were       *)
(* issued), path parameters that name no post or user.                      *)

PagerSites == Sites \cup {"comments"}

EdgeArgs(site) ==
    IF site = "user-posts" THEN Users \cup {MissingUser}
    ELSE IF site = "comments" THEN {PostId(1), PostId(2), MissingPost}
    ELSE IF site = "search" THEN {<<"a">>}
    ELSE {NoArg}

\* an id of the site's table that was never given to a row
NeverIssued(site) ==
    IF site = "bookmarks" THEN BookmarkId(0)
    ELSE IF site = "comments" THEN CommentId(0) ELSE MissingPost

EdgeOrders == {"asc", "pairs", "same"}

\* createdAt of row i: all distinct, equal two by two, or all equal
TiedAt(order, i) ==
    IF order = "pairs" THEN (i + 1) \div 2 ELSE IF order = "same" THEN 1 ELSE i

InitEdge ==
    /\ \E n \in 0..MaxRows, order \in EdgeOrders :
          /\ post = {[id |-> PostId(i), userId |-> OwnerOf("odd", i),
                      createdAt |-> TiedAt(order, i), words |-> {"a"}] : i \in 1..n}
          /\ bookmark = {[id |-> BookmarkId(i), userId |-> "u1", postId |-> PostId(i),
                          createdAt |-> TiedAt(order, i)] : i \in 1..n}
          /\ comment = {[id |-> CommentId(i), postId |-> PostId(2 - (i % 2)),
                         userId |-> OwnerOf("odd", i), createdAt |-> TiedAt(order, i)]
                        : i \in 1..n}
          /\ clock = n
    /\ tiebreak \in {"asc", "desc"}
    /\ version = 0
    /\ like = {}
    /\ follow = {}
    /\ notification = {}
    /\ scope = "edge"
    /\ reqs = <<>>
    /\ globalThis = NoProcess
    /\ auth = NoCall
    /\ hook = NoHook
    /\ walk = IdleWalk

\* between two requests of the walk the store comes to return rows of equal
\* createdAt in another order
Reorder ==
    /\ walk.state = "open"
    /\ tiebreak' = IF tiebreak = "asc" THEN "desc" ELSE "asc"
    /\ UNCHANGED <<post, comment, bookmark, like, follow, notification, clock, version,
                   scope, outside, reqs, walk>>

\* between two requests of the walk the row the issued cursor names is
\* deleted, with the rows that belong to it
DeleteCursorRow ==
    /\ walk.state = "open"
    /\ \E r \in CursorTable(walk.site) : r.id = CursorOf(walk.resp)
    /\ LET id == CursorOf(walk.resp)
       IN  /\ post' = {p \in post : p.id # id}
           /\ bookmark' = {b \in bookmark : b.id # id /\ b.postId # id}
           /\ comment' = {c \in comment : c.id # id /\ c.postId # id}
    /\ version' = version + 1
    /\ UNCHANGED <<like, follow, notification, clock, tiebreak, scope, outside, reqs, walk>>

NextEdge ==
    \/ \E site \in PagerSites, user \in Users :
          \E arg \in EdgeArgs(site),
             start \in {NoCursor, NeverIssued(site)} \cup {r.id : r \in CursorTable(site)} :
             WalkStart(site, user, arg, start)
    \/ WalkNext
    \/ Reorder
    \/ DeleteCursorRow

SpecEdge == InitEdge /\ [][NextEdge]_vars

----------------------------------------------------------------------------
(* Reference notions for the pager claims, stated on the tables alone.     *)

\* the records a site's feed consists of, for a viewer and a path/query argument
Collection(site, user, arg) ==
    IF site = "for-you" THEN post
    ELSE IF site = "user-posts" THEN {p \in post : p.userId = arg}
    ELSE IF site = "bookmarks" THEN {b \in bookmark : b.userId = user}
    ELSE IF site = "comments" THEN {c \in comment : c.postId = arg}
    ELSE LET terms == {arg[i] : i \in 1..Len(arg)} \ {" "}
         IN  {p \in post : /\ terms # {}
                            /\ \/ terms \subseteq p.words
                               \/ terms = {Lower(displayName[p.userId])}
                               \/ terms = {Lower(username[p.userId])}}

WalkCollection == Collection(walk.site, walk.user, walk.arg)

RowOf(site, id) == CHOOSE r \in CursorTable(site) : r.id = id

\* ids is the whole of coll, each record once, newest first
IsWholeDescending(ids, coll, site) ==
    /\ NoDup(ids)
    /\ SeqToSet(ids) = {r.id : r \in coll}
    /\ \A i \in 1..(Len(ids) - 1) :
          RowOf(site, ids[i]).createdAt > RowOf(site, ids[i + 1]).createdAt

CeilDiv(n, d) == (n + d - 1) \div d

WalkComplete == walk.state = "done" /\ walk.start = NoCursor
WalkAnswered == walk.state \in {"open", "done"}

\* the posts of the bodies are the posts of the rows kept, in the same order
ItemsFollowRows ==
    LET rows == Concat(walk.pages)
        items == Concat(walk.items)
    IN  /\ Len(items) = Len(rows)
        /\ \A i \in 1..Len(rows) :
              items[i] = IF walk.site = "bookmarks"
                         THEN RowOf("bookmarks", rows[i]).postId ELSE rows[i]

\* C1 (as stated): a complete walk of a collection of N records with distinct
\* createdAt yields exactly ceil(N/P) pages whose concatenation is the whole
\* collection, newest first, every record exactly once.
C1_CeilPages ==
    WalkComplete =>
        /\ Len(walk.pages) = CeilDiv(Cardinality(WalkCollection), feedPageSize)
        /\ IsWholeDescending(Concat(walk.pages), WalkCollection, walk.site)

\* C1 (amended): a complete walk yields max(1, ceil(N/P)) pages (the empty
\* collection is answered with one empty page) whose concatenation is the
\* whole collection, newest first, every record exactly once.
C1_ExactlyOnceTraversal ==
    WalkComplete =>
        /\ Len(walk.pages) = Max(1, CeilDiv(Cardinality(WalkCollection), feedPageSize))
        /\ IsWholeDescending(Concat(walk.pages), WalkCollection, walk.site)
        /\ ItemsFollowRows

C1_Witness ==
    /\ WalkComplete
    /\ Len(walk.pages) = 3
    /\ walk.site = "bookmarks"

\* where the fetch of the latest request starts: r is at or after the cursor
AtOrAfterCursor(r) ==
    \/ walk.cursor = NoCursor
    \/ r.createdAt <= RowOf(walk.site, walk.cursor).createdAt

\* no record of the collection lies after the last returned item
IsLastPage ==
    IF walk.resp.page = <<>>
    THEN \A r \in WalkCollection : ~AtOrAfterCursor(r)
    ELSE LET last == RowOf(walk.site, walk.resp.page[Len(walk.resp.page)])
         IN  \A r \in WalkCollection : r.createdAt >= last.createdAt

\* C2: in every successful page response nextCursor is null if and only if
\* the returned page is the last page; in particular when exactly pageSize
\* records remain.
C2_NullCursorIffLastPage ==
    WalkAnswered => (walk.resp.nextCursor = NoCursor <=> IsLastPage)

C2_Witness ==
    /\ WalkAnswered
    /\ Len(walk.resp.page) = feedPageSize
    /\ Cardinality({r \in WalkCollection : AtOrAfterCursor(r)}) = feedPageSize
    /\ walk.cursor # NoCursor
    /\ walk.resp.nextCursor = NoCursor

\* C3: a pager call fetches at most pageSize + 1 records and returns at most
\* pageSize items; if more than pageSize were fetched, nextCursor is the id of
\* the (pageSize+1)-th fetched record, which is not in the page; else null.
C3_FetchOneExtra ==
    WalkAnswered =>
        LET res == walk.resp
        IN  /\ Len(res.fetched) <= feedPageSize + 1
            /\ Len(res.page) <= feedPageSize
            /\ Len(res.posts) = Len(res.page)
            /\ IF Len(res.fetched) > feedPageSize
               THEN /\ res.nextCursor = res.fetched[feedPageSize + 1]
                    /\ res.nextCursor \notin SeqToSet(res.page)
               ELSE res.nextCursor = NoCursor

C3_Witness ==
    /\ WalkAnswered
    /\ Len(walk.resp.fetched) = feedPageSize + 1
    /\ walk.resp.nextCursor # NoCursor

ElevenPosts ==
    /\ Cardinality(post) = 11
    /\ \A p \in post : p.createdAt = p.id[2]
    /\ walk.site = "for-you"
    /\ walk.start = NoCursor

\* C5: the record whose id is returned as nextCursor is the first item of
\* the page returned by the next call with that cursor; for 11 posts p1..p11
\* the first call returns [p11..p2] with nextCursor p1 and the call with
\* cursor p1 returns [p1] with nextCursor null.
C5_CursorIsFirstOfNextPage ==
    /\ (WalkAnswered /\ Len(walk.pages) >= 2) =>
          /\ walk.resp.page # <<>>
          /\ walk.resp.page[1] = walk.cursor
    /\ (WalkAnswered /\ ElevenPosts) =>
          /\ walk.pages[1] = [i \in 1..10 |-> PostId(12 - i)]
          /\ Len(walk.pages) = 1 => walk.resp.nextCursor = PostId(1)
          /\ Len(walk.pages) >= 2 =>
                /\ walk.cursor = PostId(1)
                /\ walk.pages[2] = <<PostId(1)>>
                /\ walk.resp.nextCursor = NoCursor
                /\ walk.state = "done"

C5_Witness ==
    /\ ElevenPosts
    /\ walk.state = "done"
    /\ Len(walk.pages) = 2

----------------------------------------------------------------------------
(* Claims about the concurrent handlers.                                   *)

Ended(r) == r.pc = "done"
Succeeded(r) == Ended(r) /\ r.status = Success(r.ep)

\* C6: on every endpoint, when validateRequest returns user = null the
\* handler answers 401 without issuing any query or write to the store.
C6_UnauthorizedBeforeStore ==
    \A i \in DOMAIN reqs :
        reqs[i].user = NoUser =>
            /\ Ended(reqs[i])
            /\ reqs[i].status = 401
            /\ reqs[i].queries = 0
            /\ reqs[i].stmts = 0
            /\ reqs[i].ran = 0
            /\ reqs[i].applied = 0

C6_Witness ==
    /\ Len(reqs) = 2
    /\ Succeeded(reqs[1]) /\ reqs[1].applied > 0
    /\ reqs[2].user = NoUser /\ IsWrite(reqs[2].ep) /\ reqs[2].status = 401

IsInfo(r) == Ended(r) /\ r.status = 200 /\ r.ep \in {"likes.GET", "followers.GET"}
ViewerFlag(r) == IF r.ep = "likes.GET" THEN r.body.isLikedByUser ELSE r.body.isFollowedByUser
InfoCount(r) == IF r.ep = "likes.GET" THEN r.body.likes ELSE r.body.followers

\* C7 (as stated): every LikeInfo (FollowerInfo) response has isLikedByUser
\* (isFollowedByUser) = true only with likes (followers) >= 1, for any
\* interleaving of the read with writes.
C7_FlagImpliesCount ==
    \A i \in DOMAIN reqs :
        IsInfo(reqs[i]) => (ViewerFlag(reqs[i]) => InfoCount(reqs[i]) >= 1)

\* C7 (amended): every LikeInfo (FollowerInfo) response whose count
\* sub-fetch and relation sub-fetch had no write committed between them has
\* isLikedByUser (isFollowedByUser) = true only with likes (followers) >= 1.
C7_FlagImpliesCountUnlessRaced ==
    \A i \in DOMAIN reqs :
        (IsInfo(reqs[i]) /\ ~reqs[i].raced) =>
            (ViewerFlag(reqs[i]) => InfoCount(reqs[i]) >= 1)

C7_Witness ==
    \E i, j \in DOMAIN reqs :
        /\ i < j
        /\ reqs[i].ep = "followers.POST" /\ Succeeded(reqs[i])
        /\ IsInfo(reqs[j]) /\ ~reqs[j].raced
        /\ ViewerFlag(reqs[j]) /\ InfoCount(reqs[j]) = 1

AtMostOneOfViewer(rows, viewer, actor(_)) ==
    /\ Cardinality(rows) <= 1
    /\ \A x \in rows : actor(x) = viewer

UserIdOf(x) == x.userId
FollowerIdOf(x) == x.followerId

\* C8: the store holds at most one relation row per (actor, entity) pair, and
\* the viewer-filtered sub-fetch of any projected entity (likes, bookmarks,
\* user.followers) holds at most one row, whose actor is the viewer.
C8_OneRowPerPair ==
    /\ \A a, b \in like : (a.userId = b.userId /\ a.postId = b.postId) => a = b
    /\ \A a, b \in bookmark : (a.userId = b.userId /\ a.postId = b.postId) => a = b
    /\ \A a, b \in follow :
          (a.followerId = b.followerId /\ a.followingId = b.followingId) => a = b
    /\ \A i \in DOMAIN reqs :
          LET r == reqs[i]
          IN  (Ended(r) /\ r.status = 200) =>
                /\ r.ep \in {"likes.GET", "bookmark.GET"} =>
                      AtMostOneOfViewer(r.seen.rows, r.user, UserIdOf)
                /\ r.ep \in {"followers.GET", "user.GET"} =>
                      AtMostOneOfViewer(r.seen.rows, r.user, FollowerIdOf)
                /\ r.ep = "comments.GET" =>
                      \A k \in 1..Len(r.body.comments) :
                          AtMostOneOfViewer(r.body.comments[k].user.followers, r.user,
                                            FollowerIdOf)
                /\ (FirstCall(r.ep) = "page" /\ r.ep # "comments.GET") =>
                      \A k \in 1..Len(r.body.posts) :
                          /\ AtMostOneOfViewer(r.body.posts[k].likes, r.user, UserIdOf)
                          /\ AtMostOneOfViewer(r.body.posts[k].bookmarks, r.user, UserIdOf)
                          /\ AtMostOneOfViewer(r.body.posts[k].user.followers, r.user,
                                               FollowerIdOf)

SameRequest(a, b) == a.ep = b.ep /\ a.user = b.user /\ a.arg = b.arg

\* two POSTs of one viewer on one target ran concurrently and both succeeded
C8_Witness ==
    /\ Len(reqs) = 2
    /\ SameRequest(reqs[1], reqs[2])
    /\ reqs[1].ep = "likes.POST"
    /\ reqs[1].status = 200 /\ reqs[2].status = 200
    /\ Cardinality(like) = 1

\* C9: the same like, follow or bookmark POST (or DELETE) issued two or more
\* times by one viewer on one target leaves the relation rows and the
\* notification rows as issuing it once.
C9_DuplicatesConverge ==
    ( /\ Len(reqs) >= 2
      /\ \A i \in DOMAIN reqs :
            /\ IsWrite(reqs[i].ep)
            /\ SameRequest(reqs[i], reqs[1])
            /\ Succeeded(reqs[i]) )
    => /\ like = ApplyAll(InitialDB(scope), Stmts(reqs[1])).like
       /\ follow = ApplyAll(InitialDB(scope), Stmts(reqs[1])).follow
       /\ bookmark = ApplyAll(InitialDB(scope), Stmts(reqs[1])).bookmark
       /\ notification = ApplyAll(InitialDB(scope), Stmts(reqs[1])).notification

LikeNotified(u, p) ==
    \E x \in notification :
        x.type = "LIKE" /\ x.issuerId = u /\ x.recipientId = p.userId /\ x.postId = p.id
FollowNotified(u, v) ==
    \E x \in notification : x.type = "FOLLOW" /\ x.issuerId = u /\ x.recipientId = v

\* C10: the relation change and the notification change of a like or follow
\* POST / DELETE are applied all-or-nothing: at every moment the committed
\* tables hold every statement of such a request or none, none after a 500
\* and all after a success; a like of another user's post and its LIKE
\* notification, a follow and its FOLLOW notification, are there together.
C10_AllOrNothing ==
    /\ \A i \in DOMAIN reqs :
          LET r == reqs[i]
          IN  IsWrite(r.ep) =>
                /\ r.applied \in {0, r.stmts}
                /\ Succeeded(r) => (r.stmts >= 1 /\ r.applied = r.stmts)
                /\ (Ended(r) /\ ~Succeeded(r)) => r.applied = 0
    /\ \A p \in post : \A u \in Users \ {p.userId} :
          (\E l \in like : l.userId = u /\ l.postId = p.id) <=> LikeNotified(u, p)
    /\ \A u, v \in Users :
          (\E f \in follow : f.followerId = u /\ f.followingId = v) <=> FollowNotified(u, v)

\* a transaction whose second statement threw after the first was executed
C10_Witness ==
    \E i \in DOMAIN reqs :
        /\ reqs[i].ep \in {"likes.POST", "followers.DELETE"}
        /\ reqs[i].status = 500
        /\ reqs[i].stmts = 2 /\ reqs[i].ran = 1 /\ reqs[i].applied = 0

\* the tables of the store
Tables == <<post, comment, like, bookmark, follow, notification>>

\* this step is a step of the handler of request i: it arrives or it makes
\* its next store call
StepOf(i) ==
    \/ i \notin DOMAIN reqs
    \/ reqs'[i].pc # reqs[i].pc
    \/ reqs'[i].queries # reqs[i].queries

\* C12: every GET handler (page fetches, like info, bookmark info, follower
\* info, user lookup) leaves the posts, comments, likes, bookmarks, follows
\* and notifications unchanged, whatever its outcome (200, 401, 404, 500).
C12_GetLeavesStoreUnchanged ==
    [][\A i \in DOMAIN reqs' : (~IsWrite(reqs'[i].ep) /\ StepOf(i)) => Tables' = Tables]_vars

\* a page fetch answered while the store holds a bookmark
C12_Witness ==
    /\ Len(reqs) = 2
    /\ reqs[1].ep = "bookmark.POST" /\ Succeeded(reqs[1]) /\ bookmark # {}
    /\ reqs[2].ep = "bookmarks.GET" /\ reqs[2].status = 200
    /\ Len(reqs[2].body.posts) = 1

----------------------------------------------------------------------------
(* Claims about the edges of the pager contract.                           *)

\* C11: a pager call whose cursor identifies no existing record (never
\* issued, or deleted after it was issued) is answered with a successful page
\* of at most pageSize items, possibly empty, never with an error.
C11_StaleCursorPage ==
    (walk.state # "idle" /\ walk.stale) =>
        /\ walk.resp.status = 200
        /\ Len(walk.resp.page) <= PageSizeOf(walk.site)
        /\ Len(ItemsOf(walk.resp)) = Len(walk.resp.page)

\* the comment an issued previousCursor names was deleted before the next call
C11_Witness ==
    /\ walk.stale
    /\ walk.site = "comments"
    /\ Len(walk.pages) = 2
    /\ walk.cursor # NeverIssued(walk.site)
    /\ walk.resp.status = 200

\* some rows of the walked collection share a createdAt
HasTies == \E r, q \in WalkCollection : r # q /\ r.createdAt = q.createdAt

\* C13: the ordering key of every pager call site is unique or carries a
\* unique tiebreaker, so that when records share a createdAt a full
\* cursor-follow traversal still returns every record exactly once.
C13_TiesTraversedOnce ==
    (walk.state = "done" /\ walk.start = NoCursor /\ version = 0 /\ HasTies) =>
        /\ NoDup(Concat(walk.pages))
        /\ SeqToSet(Concat(walk.pages)) = {r.id : r \in WalkCollection}

----------------------------------------------------------------------------
(* Claims about the viewer-scoped projection.                              *)

\* the read of request r was answered from the tables as they are now: no
\* write was committed since its first sub-fetch
Current(r) == Ended(r) /\ r.status = 200 /\ ~r.raced /\ r.seen.at = version

\* the reference: relation rows and cardinalities of the tables
Liked(u, p) == \E l \in like : l.userId = u /\ l.postId = p
Bookmarked(u, p) == \E b \in bookmark : b.userId = u /\ b.postId = p
Follows(u, v) == \E f \in follow : f.followerId = u /\ f.followingId = v
LikesOf(p) == Cardinality({l \in like : l.postId = p})
CommentsOf(p) == Cardinality({c \in comment : c.postId = p})
FollowersOf(v) == Cardinality({f \in follow : f.followingId = v})
PostsOf(u) == Cardinality({p \in post : p.userId = u})

UserMatches(d, viewer) ==
    /\ (d.followers # {}) <=> Follows(viewer, d.id)
    /\ d.followerCount = FollowersOf(d.id)
    /\ d.postCount = PostsOf(d.id)

PostMatches(d, viewer) ==
    /\ (d.likes # {}) <=> Liked(viewer, d.id)
    /\ (d.bookmarks # {}) <=> Bookmarked(viewer, d.id)
    /\ d.likeCount = LikesOf(d.id)
    /\ d.commentCount = CommentsOf(d.id)
    /\ UserMatches(d.user, viewer)

\* C14: with no concurrent write the projection equals the reference: the
\* viewer flag is true exactly when a relation row of the viewer for the
\* entity exists, and each count (likes, followers, comments, posts) is the
\* number of rows of the unfiltered relation of the entity.
C14_ProjectionIsReference ==
    \A i \in DOMAIN reqs :
        LET r == reqs[i]
        IN  Current(r) =>
              /\ r.ep = "likes.GET" =>
                    /\ r.body.isLikedByUser <=> Liked(r.user, r.arg)
                    /\ r.body.likes = LikesOf(r.arg)
              /\ r.ep = "followers.GET" =>
                    /\ r.body.isFollowedByUser <=> Follows(r.user, r.arg)
                    /\ r.body.followers = FollowersOf(r.arg)
              /\ r.ep = "bookmark.GET" =>
                    (r.body.isBookmarkedByUser <=> Bookmarked(r.user, r.arg))
              /\ r.ep = "user.GET" => UserMatches(r.body, r.user)
              /\ r.ep = "comments.GET" =>
                    \A k \in 1..Len(r.body.comments) :
                        UserMatches(r.body.comments[k].user, r.user)
              /\ r.ep \in {"for-you.GET", "bookmarks.GET", "search.GET", "user-posts.GET"} =>
                    \A k \in 1..Len(r.body.posts) : PostMatches(r.body.posts[k], r.user)

\* a post liked by another user: the count is 1 and the viewer's flag false
C14_Witness ==
    \E i \in DOMAIN reqs :
        /\ reqs[i].ep = "likes.GET" /\ Current(reqs[i])
        /\ reqs[i].body.likes = 1 /\ ~reqs[i].body.isLikedByUser

----------------------------------------------------------------------------
(* Claims about absent entities and failures.                              *)

\* an authenticated like GET / POST / DELETE whose postId names no post, or
\* follower-info GET whose userId names no user
MissingTarget(r) ==
    /\ r.user \in Users
    /\ \/ r.ep \in {"likes.GET", "likes.POST", "likes.DELETE"} /\ ~\E p \in post : p.id = r.arg
       \/ r.ep = "followers.GET" /\ r.arg \notin Users

\* C16: an authenticated like GET, POST or DELETE on a postId that names no
\* post, and a follower-info GET on a userId that names no user, respond 404
\* (500 when the lookup itself throws) and create or delete no like, follow
\* or notification row: no step of such a request changes a table and it
\* never issues a statement.
C16_MissingTargetIs404 ==
    [][\A i \in DOMAIN reqs' :
          (MissingTarget(reqs'[i]) /\ StepOf(i)) =>
              /\ Tables' = Tables
              /\ reqs'[i].stmts = 0 /\ reqs'[i].pc # "tx"
              /\ Ended(reqs'[i]) => reqs'[i].status \in {404, 500}
              /\ (Ended(reqs'[i]) /\ reqs'[i].body # Caught(reqs'[i]).body)
                    => reqs'[i].status = 404]_vars

\* an unlike of a missing post answered 404 while the store holds a like
C16_Witness ==
    /\ Len(reqs) = 2
    /\ reqs[1].ep = "likes.POST" /\ Succeeded(reqs[1]) /\ like # {}
    /\ reqs[2].ep = "likes.DELETE" /\ MissingTarget(reqs[2])
    /\ Ended(reqs[2]) /\ reqs[2].status = 404 /\ reqs[2].applied = 0

\* the walk fetches the comments of a postId that names no post, or the
\* posts of a userId that names no user
AbsentEntity(w) ==
    \/ w.site = "comments" /\ ~\E p \in post : p.id = w.arg
    \/ w.site = "user-posts" /\ w.arg \notin Users

\* C17: an absent referenced entity is reported as NotFound, distinct from an
\* empty page: the page fetch of the comments of a missing postId, or of the
\* posts of a missing userId, is answered 404 and not 200 with an empty page
\* and a null cursor.
C17_AbsentEntityNotFound ==
    (walk.state # "idle" /\ walk.user \in Users /\ AbsentEntity(walk))
        => walk.resp.status = 404

\* C18: in every handler a failure raised at any step (validateRequest, a
\* store query, the transaction) is caught by the handler and answered with
\* status 500 and the fixed body { error: "Internal server error" }: the
\* request still ends with a response, and the response carries nothing of
\* the failure.
C18_FailureIsGeneric500 ==
    \A i \in DOMAIN reqs :
        reqs[i].threw # NoThrow =>
            /\ Ended(reqs[i])
            /\ reqs[i].status = 500
            /\ reqs[i].body = [error |-> "Internal server error"]

\* one request whose validateRequest threw and one whose transaction threw
\* at its second statement
C18_Witness ==
    /\ Len(reqs) = 2
    /\ reqs[1].threw = "validateRequest" /\ reqs[1].status = 500
    /\ reqs[2].threw = "$transaction" /\ reqs[2].ran = 1 /\ reqs[2].stmts = 2
    /\ reqs[2].status = 500

----------------------------------------------------------------------------
(* The search query builder on raw query strings: the handler reads q and  *)
(* builds searchQuery before anything else.                                *)

MaxQuery == 3
Chars == {"a", "c", " ", "\t", "\n"}

\* the values of req.nextUrl.searchParams.get("q") || ""
RawQueries == UNION {[1..n -> Chars] : n \in 0..MaxQuery}

InitSearch ==
    /\ post = {}
    /\ comment = {}
    /\ bookmark = {}
    /\ like = {}
    /\ follow = {}
    /\ notification = {}
    /\ clock = 0
    /\ tiebreak = "asc"
    /\ version = 0
    /\ scope = "query"
    /\ reqs = <<>>
    /\ globalThis = NoProcess
    /\ auth = NoCall
    /\ hook = NoHook
    /\ \E q \in RawQueries : walk = [IdleWalk EXCEPT !.site = "search", !.arg = q]

\* const searchQuery = q.split(" ").join(" & ")
BuildQuery ==
    /\ walk.state = "idle"
    /\ walk' = [walk EXCEPT !.state = "built", !.search = SearchQuery(walk.arg)]
    /\ UNCHANGED <<store, scope, outside, reqs>>

NextSearch == BuildQuery

SpecSearch == InitSearch /\ [][NextSearch]_vars

\* the reference: the maximal runs of non-whitespace characters of q, in
\* order; for the empty q a single empty term
IsSpace(ch) == ch \in {" ", "\t", "\n"}

RECURSIVE WhitespaceTerms(_)
WhitespaceTerms(q) ==
    IF q = <<>> THEN <<>>
    ELSE IF IsSpace(q[1]) THEN WhitespaceTerms(Tail(q))
    ELSE LET n == IF \A i \in 1..Len(q) : ~IsSpace(q[i]) THEN Len(q)
                  ELSE (CHOOSE i \in 1..Len(q) :
                            IsSpace(q[i]) /\ \A j \in 1..(i - 1) : ~IsSpace(q[j])) - 1
         IN  <<SubSeq(q, 1, n)>> \o WhitespaceTerms(SubSeq(q, n + 1, Len(q)))

TermsOf(q) == IF q = <<>> THEN << <<>> >> ELSE WhitespaceTerms(q)

\* C19: for every raw query string q (empty, with consecutive, leading or
\* trailing spaces, with tabs or newlines) the search query sent to the store
\* is the whitespace-separated terms of q joined with " & "; for the empty q
\* it is the single empty term.
C19_QueryIsWhitespaceTerms ==
    walk.state = "built" => walk.search = JoinAnd(TermsOf(walk.arg))

----------------------------------------------------------------------------
(* Claims about the comments pager.                                        *)

\* ids is the whole of coll, each record once, oldest first
IsWholeAscending(ids, coll, site) ==
    /\ NoDup(ids)
    /\ SeqToSet(ids) = {r.id : r \in coll}
    /\ \A i \in 1..(Len(ids) - 1) :
          RowOf(site, ids[i]).createdAt < RowOf(site, ids[i + 1]).createdAt

\* the comments of the post no page of the walk has returned yet
NotYetReturned == {c \in WalkCollection : c.id \notin SeqToSet(Concat(walk.pages))}

----------------------------------------------------------------------------
(* lib/prisma: the module that constructs and exports the Prisma client.   *)
(* globalThis = [NODE_ENV, prismaGlobal, constructed, prisma, used]:       *)
(* constructed counts the calls of new PrismaClient(), and instance k is   *)
(* the k-th one constructed; prisma lists the instance each evaluation of  *)
(* the module exported; used holds the instances requests ran queries on.  *)

MaxEvals == 6
NodeEnvs == {"production", "development", "test"}
Undefined == 0       \* globalThis.prismaGlobal before any assignment

\* no table holds a row, no request and no walk is under way
HandlersIdle ==
    /\ post = {}
    /\ comment = {}
    /\ bookmark = {}
    /\ like = {}
    /\ follow = {}
    /\ notification = {}
    /\ clock = 0
    /\ tiebreak = "asc"
    /\ version = 0
    /\ reqs = <<>>
    /\ walk = IdleWalk

InitModule ==
    /\ HandlersIdle
    /\ scope = "process"
    /\ auth = NoCall
    /\ hook = NoHook
    /\ \E env \in NodeEnvs :
          globalThis = [NODE_ENV |-> env, prismaGlobal |-> Undefined, constructed |-> 0,
                        prisma |-> <<>>, used |-> {}]

\* mutant: every evaluation constructs its client and prismaGlobal is not read
EvaluateModuleAfresh(g) ==
    [g EXCEPT !.constructed = @ + 1,
              !.prisma = Append(@, g.constructed + 1),
              !.prismaGlobal = IF g.NODE_ENV # "production" THEN g.constructed + 1 ELSE @]

\* const createPrismaClient = () => new PrismaClient()
createPrismaClient(g) == [g EXCEPT !.constructed = @ + 1]

\* one evaluation of the module:
\*   const prisma = globalThis.prismaGlobal ?? createPrismaClient();
\*   if (process.env.NODE_ENV !== "production") globalThis.prismaGlobal = prisma;
EvaluateModule(g) ==
    LET made == IF g.prismaGlobal # Undefined THEN g ELSE createPrismaClient(g)
        prisma == IF g.prismaGlobal # Undefined THEN g.prismaGlobal ELSE made.constructed
    IN  [made EXCEPT !.prisma = Append(@, prisma),
                     !.prismaGlobal = IF g.NODE_ENV # "production" THEN prisma ELSE @]

\* the module is evaluated: at first import, and again whenever the module
\* registry holds no evaluated copy of it (hot reload, a second bundle)
Evaluate ==
    /\ Len(globalThis.prisma) < MaxEvals
    /\ globalThis' = EvaluateModule(globalThis)
    /\ UNCHANGED <<store, scope, reqs, walk, auth, hook>>

\* a request handler runs a query on the client its copy k of the module exports
Query(k) ==
    /\ k \in DOMAIN globalThis.prisma
    /\ globalThis.prisma[k] \notin globalThis.used
    /\ globalThis' = [globalThis EXCEPT !.used = @ \cup {globalThis.prisma[k]}]
    /\ UNCHANGED <<store, scope, reqs, walk, auth, hook>>

NextModule ==
    \/ Evaluate
    \/ \E k \in 1..MaxEvals : Query(k)

SpecModule == InitModule /\ [][NextModule]_vars

\* C21 (as stated): across any number of evaluations of the prisma module in
\* one process PrismaClient is constructed at most once and every request
\* uses that one instance.
C21_ConstructedOnce ==
    /\ globalThis.constructed <= 1
    /\ Cardinality(globalThis.used) <= 1

\* C21 (amended): when NODE_ENV is not "production" PrismaClient is
\* constructed at most once however often the module is evaluated, every
\* evaluation exports that instance and every request uses it; when NODE_ENV
\* is "production" prismaGlobal stays undefined and every evaluation of the
\* module constructs a client of its own, so that the client is one per
\* process only if the module is evaluated once.
C21_SingletonOutsideProduction ==
    /\ globalThis.NODE_ENV # "production" =>
          /\ globalThis.constructed <= 1
          /\ \A k \in DOMAIN globalThis.prisma : globalThis.prisma[k] = 1
          /\ globalThis.used \subseteq {1}
          /\ globalThis.prisma # <<>> => globalThis.prismaGlobal = 1
    /\ globalThis.NODE_ENV = "production" =>
          /\ globalThis.prismaGlobal = Undefined
          /\ globalThis.constructed = Len(globalThis.prisma)
          /\ \A k \in DOMAIN globalThis.prisma : globalThis.prisma[k] = k
    /\ Len(globalThis.prisma) <= 1 => globalThis.constructed <= 1

\* the module was evaluated three times under hot reload and a request ran
C21_Witness ==
    /\ globalThis.NODE_ENV = "development"
    /\ Len(globalThis.prisma) = 3
    /\ globalThis.constructed = 1
    /\ globalThis.used = {1}

----------------------------------------------------------------------------
(* auth: validateRequest.  auth = [pc, cookie, kind, owner, setThrows,      *)
(* result, validated, writes]: cookie is what the request carries under    *)
(* lucia.sessionCookieName; kind and owner say what the session store      *)
(* answers for that id; setThrows says whether cookies().set throws in     *)
(* this rendering context; validated counts the calls of                   *)
(* lucia.validateSession; writes lists the calls of cookies().set.         *)

Absent == "absent"                 \* cookies().get(name) is undefined
SessionIds == {"s1", "s2"}
Cookies == {Absent, ""} \cup SessionIds
SessionKinds == {"valid", "fresh", "invalid", "throws"}
sessionCookieName == "auth_session"
NoSession == [id |-> "null", fresh |-> FALSE]      \* session: null
NoResult == [user |-> NoUser, session |-> NoSession]

InitAuth ==
    /\ HandlersIdle
    /\ scope = "auth"
    /\ globalThis = NoProcess
    /\ hook = NoHook
    /\ \E c \in Cookies, k \in SessionKinds, u \in Users, t \in BOOLEAN :
          auth = [pc |-> "start", cookie |-> c, kind |-> k, owner |-> u, setThrows |-> t,
                  result |-> NoResult, validated |-> 0, writes |-> <<>>]

\* mutant: only a missing cookie is taken for no session id
SessionIdOfAbsentOnly(a) == a.cookie

\* cookies().get(lucia.sessionCookieName)?.value ?? null, tested by
\* if (!sessionId): null and the empty string both count as no session id
SessionIdOf(a) == IF a.cookie \in {Absent, ""} THEN Absent ELSE a.cookie

\* lines 63-71
GetSessionId(a) ==
    IF SessionIdOf(a) = Absent THEN [a EXCEPT !.pc = "returned", !.result = NoResult]
    ELSE [a EXCEPT !.pc = "validate"]

\* await lucia.validateSession(sessionId): user and session, both null for an
\* id the session store does not hold or holds expired; or it rejects
ValidateSessionResult(a) ==
    IF a.kind \in {"valid", "fresh"}
    THEN [user |-> a.owner, session |-> [id |-> a.cookie, fresh |-> a.kind = "fresh"]]
    ELSE NoResult

\* line 74
CallValidateSession(a) ==
    IF a.kind = "throws" THEN [a EXCEPT !.pc = "thrown", !.validated = @ + 1]
    ELSE [a EXCEPT !.pc = "cookie", !.validated = @ + 1, !.result = ValidateSessionResult(a)]

\* cookies().set(name, value, attributes)
CookieSet(a, value) ==
    [a EXCEPT !.writes = Append(@, [name |-> sessionCookieName, value |-> value])]

\* mutant: the cookie is written outside any try block
WriteCookieUncaught(a) ==
    LET set == IF a.result.session # NoSession /\ a.result.session.fresh
               THEN CookieSet(a, a.result.session.id)
               ELSE IF a.result.session = NoSession THEN CookieSet(a, "")
               ELSE a
    IN  IF set # a /\ a.setThrows THEN [set EXCEPT !.pc = "thrown", !.result = NoResult]
        ELSE [set EXCEPT !.pc = "returned"]

\* lines 76-100: try { re-issue the cookie of a fresh session; blank the
\* cookie of an invalid one } catch {}; return result
WriteCookie(a) ==
    LET set == IF a.result.session # NoSession /\ a.result.session.fresh
               THEN CookieSet(a, a.result.session.id)
               ELSE IF a.result.session = NoSession THEN CookieSet(a, "")
               ELSE a
    IN  [set EXCEPT !.pc = "returned"]

ReadCookie ==
    /\ auth.pc = "start"
    /\ auth' = GetSessionId(auth)
    /\ UNCHANGED <<store, scope, reqs, walk, globalThis, hook>>

ValidateSession ==
    /\ auth.pc = "validate"
    /\ auth' = CallValidateSession(auth)
    /\ UNCHANGED <<store, scope, reqs, walk, globalThis, hook>>

RefreshCookie ==
    /\ auth.pc = "cookie"
    /\ auth' = WriteCookie(auth)
    /\ UNCHANGED <<store, scope, reqs, walk, globalThis, hook>>

NextAuth == ReadCookie \/ ValidateSession \/ RefreshCookie

SpecAuth == InitAuth /\ [][NextAuth]_vars

\* C22: validateRequest returns a non-null user if and only if a session
\* cookie is present and the session store validates its id; when the cookie
\* is absent or empty it returns { user: null, session: null } without
\* calling lucia.validateSession and without writing a cookie.
C22_UserIffValidSession ==
    /\ auth.pc = "returned" =>
          /\ auth.result.user # NoUser <=>
                (auth.cookie \in SessionIds /\ auth.kind \in {"valid", "fresh"})
          /\ auth.result.user # NoUser => auth.result.user = auth.owner
          /\ (auth.result.user = NoUser) <=> (auth.result.session = NoSession)
    /\ auth.cookie \in {Absent, ""} =>
          /\ auth.validated = 0
          /\ auth.writes = <<>>
          /\ auth.pc \in {"start", "returned"}
          /\ auth.result = NoResult

\* a request with an empty session cookie was answered
C22_Witness ==
    /\ auth.pc = "returned" /\ auth.cookie = "" /\ auth.kind = "valid"
    /\ auth.result = NoResult /\ auth.validated = 0

\* what the cookie effect of a validation result is
CookieEffect(a) ==
    IF a.kind = "invalid" THEN <<[name |-> sessionCookieName, value |-> ""]>>
    ELSE IF a.kind = "fresh" THEN <<[name |-> sessionCookieName, value |-> a.cookie]>>
    ELSE <<>>

\* C23: the cookie effect of validateRequest is determined by the validation
\* result: an invalid session causes exactly one write of the blank session
\* cookie, a valid fresh session exactly one re-issue of the session cookie
\* for that session id, a valid non-fresh session no write; and a throw of
\* the write is swallowed: the call still returns, with the same result.
C23_CookieEffect ==
    (auth.cookie \in SessionIds /\ auth.kind # "throws" /\ auth.pc \notin {"start", "validate", "cookie"}) =>
        /\ auth.pc = "returned"
        /\ auth.writes = CookieEffect(auth)
        /\ auth.result = ValidateSessionResult(auth)

\* the blank cookie could not be written and the call returned all the same
C23_Witness ==
    /\ auth.pc = "returned" /\ auth.setThrows /\ auth.kind = "invalid"
    /\ auth.cookie \in SessionIds
    /\ Len(auth.writes) = 1 /\ auth.writes[1].value = ""
    /\ auth.result = NoResult

----------------------------------------------------------------------------
(* hooks/useDebounce in one mounted component.  hook = [mounted, value,     *)
(* debouncedValue, delay, handler, timers, set, changes, now, since]:      *)
(* value is the argument of the latest render, timers the setTimeout calls *)
(* not yet fired or cleared, as [id, value, due]; handler the id the latest *)
(* effect run returned a cleanup for (NoHandler: it returned none); set    *)
(* counts the setTimeout calls, changes the renders with a new value; now  *)
(* is the time in ticks and since the time value last changed.  A render   *)
(* and the cleanup and effect that follow it are one step.                 *)

MaxTime == 4
MaxChanges == 3
Values == {"", "a", "ab"}
Delays == {1, 2}
NoHandler == 0

\* first render: useState(value), then the effect, which returns at once
InitHook ==
    /\ HandlersIdle
    /\ scope = "hook"
    /\ globalThis = NoProcess
    /\ auth = NoCall
    /\ \E d \in Delays :
          hook = [mounted |-> TRUE, value |-> "", debouncedValue |-> "", delay |-> d,
                  handler |-> NoHandler, timers |-> {}, set |-> 0, changes |-> 0,
                  now |-> 0, since |-> 0]

\* mutant: the effect returns no cleanup function
CleanupNothing(h) == [h EXCEPT !.handler = NoHandler]

\* return () => clearTimeout(handler), of the effect run before this one
Cleanup(h) ==
    [h EXCEPT !.timers = {t \in @ : t.id # h.handler}, !.handler = NoHandler]

\* mutant: the effect returns when the values differ
EffectInverted(h) ==
    IF h.debouncedValue # h.value THEN h
    ELSE [h EXCEPT !.set = @ + 1, !.handler = h.set + 1,
                   !.timers = @ \cup {[id |-> h.set + 1, value |-> h.value,
                                        due |-> h.now + h.delay]}]

\* if (debouncedValue === value) return;
\* const handler = setTimeout(() => setDebouncedValue(value), delay)
Effect(h) ==
    IF h.debouncedValue = h.value THEN h
    ELSE [h EXCEPT !.set = @ + 1, !.handler = h.set + 1,
                   !.timers = @ \cup {[id |-> h.set + 1, value |-> h.value,
                                        due |-> h.now + h.delay]}]

\* a render in which value or debouncedValue differs from the render before:
\* the cleanup of the previous effect, then the effect
Commit(h) == Effect(Cleanup(h))

\* the component is rendered with a new value
Change(v) ==
    /\ hook.mounted
    /\ v # hook.value
    /\ hook.changes < MaxChanges
    /\ hook.now + hook.delay <= MaxTime
    /\ hook' = Commit([hook EXCEPT !.value = v, !.since = hook.now, !.changes = @ + 1])
    /\ UNCHANGED <<store, scope, reqs, walk, globalThis, auth>>

Tick ==
    /\ hook.now < MaxTime
    /\ hook' = [hook EXCEPT !.now = @ + 1]
    /\ UNCHANGED <<store, scope, reqs, walk, globalThis, auth>>

\* a timer is due and its callback runs: setDebouncedValue(value); a state
\* that changed causes a render
Fire(t) ==
    /\ t \in hook.timers
    /\ hook.now >= t.due
    /\ LET fired == [hook EXCEPT !.timers = @ \ {t}]
       IN  hook' = IF ~hook.mounted \/ t.value = hook.debouncedValue THEN fired
                   ELSE Commit([fired EXCEPT !.debouncedValue = t.value])
    /\ UNCHANGED <<store, scope, reqs, walk, globalThis, auth>>

\* the component unmounts: the cleanup of the last effect runs
Unmount ==
    /\ hook.mounted
    /\ hook' = [Cleanup(hook) EXCEPT !.mounted = FALSE]
    /\ UNCHANGED <<store, scope, reqs, walk, globalThis, auth>>

NextHook ==
    \/ \E v \in Values : Change(v)
    \/ Tick
    \/ \E t \in hook.timers : Fire(t)
    \/ Unmount

SpecHook == InitHook /\ [][NextHook]_vars

\* time passes and due timers fire
SpecHookLive ==
    /\ SpecHook
    /\ WF_vars(Tick)
    /\ WF_vars(\E t \in hook.timers : Fire(t))

\* C24: the debounced value changes only to a value the input has held
\* continuously for at least delay since it last changed; a value replaced
\* before delay elapsed never becomes the debounced value (every pending
\* timer carries the current input); at most one timer is pending at any
\* time; and no timer is pending while the input equals the debounced value.
C24_DebounceSafety ==
    /\ [][hook'.debouncedValue # hook.debouncedValue =>
             /\ hook'.debouncedValue = hook.value
             /\ hook'.value = hook.value
             /\ hook.now - hook.since >= hook.delay]_vars
    /\ [](/\ Cardinality(hook.timers) <= 1
          /\ \A t \in hook.timers : t.value = hook.value /\ t.due >= hook.since + hook.delay
          /\ hook.value = hook.debouncedValue => hook.timers = {})

\* the input went to "a", then to "ab" before the delay had elapsed, and
\* "ab" became the debounced value
C24_Witness ==
    /\ hook.mounted
    /\ hook.changes = 2 /\ hook.set = 2 /\ hook.since > 0
    /\ hook.value = "ab" /\ hook.debouncedValue = "ab"
    /\ hook.timers = {}

\* C25: if the input stops changing while the component stays mounted and
\* timers fire, the debounced value eventually equals the input and stays
\* equal to it.
C25_DebounceSettles ==
    \A v \in Values :
        <>[](hook.mounted /\ hook.value = v) => <>[](hook.debouncedValue = v)

\* the input was changed three times and the debounced value caught up
C25_Witness ==
    /\ hook.mounted
    /\ hook.changes = MaxChanges
    /\ hook.value = "a" /\ hook.debouncedValue = "a"
    /\ hook.now = MaxTime

----------------------------------------------------------------------------
(* Claims about the notifications the relation writes keep.                *)

\* C26: no notification row ever has issuerId equal to recipientId: liking
\* one's own post creates the like row and no LIKE notification, and a
\* follow POST on the viewer's own id creates no FOLLOW notification.
C26_NoSelfNotification ==
    \A x \in notification : x.issuerId # x.recipientId

----------------------------------------------------------------------------
(* Requests served one after the other: the next request arrives when the  *)
(* one before it has been answered.                                        *)

MaxServed == 4
RoundScopes == {"like-round", "follow-round"}

RoundEndpoints(sc) ==
    IF sc = "like-round" THEN {"likes.POST", "likes.DELETE"}
    ELSE {"followers.POST", "followers.DELETE"}

RoundArgs(ep) ==
    IF ep \in {"likes.POST", "likes.DELETE"} THEN {PostId(1), PostId(2)} ELSE Users

InitRound ==
    /\ post = {[id |-> PostId(1), userId |-> "u1", createdAt |-> 1, words |-> {"a"}],
               [id |-> PostId(2), userId |-> "u2", createdAt |-> 2, words |-> {"c"}]}
    /\ comment = {}
    /\ scope \in RoundScopes
    /\ bookmark = InitialDB(scope).bookmark
    /\ like = InitialDB(scope).like
    /\ follow = InitialDB(scope).follow
    /\ notification = InitialDB(scope).notification
    /\ clock = InitialDB(scope).clock
    /\ tiebreak = "asc"
    /\ version = 0
    /\ reqs = <<>>
    /\ walk = IdleWalk
    /\ globalThis = NoProcess
    /\ auth = NoCall
    /\ hook = NoHook

ArriveInTurn(ep, user, arg) ==
    /\ \A i \in DOMAIN reqs : reqs[i].pc = "done"
    /\ Len(reqs) < MaxServed
    /\ reqs' = Append(reqs, Validate(NewRequest(ep, user, arg), "none"))
    /\ UNCHANGED <<store, scope, outside, walk>>

NextRound ==
    \/ \E ep \in RoundEndpoints(scope), user \in Users :
          \E arg \in RoundArgs(ep) : ArriveInTurn(ep, user, arg)
    \/ \E i \in DOMAIN reqs : Find(i, "none")
    \/ \E i \in DOMAIN reqs : Tx(i, 0)

SpecRound == InitRound /\ [][NextRound]_vars

\* C27: after any sequence of like, unlike, follow and unfollow requests a
\* LIKE notification with issuer I and post P exists only if the like row
\* (I, P) exists, and a FOLLOW notification with issuer I and recipient U
\* only if the follow row (I, U) exists.
C27_NotificationHasRelation ==
    \A x \in notification :
        /\ x.type = "LIKE" => \E l \in like : l.userId = x.issuerId /\ l.postId = x.postId
        /\ x.type = "FOLLOW" =>
              \E f \in follow : f.followerId = x.issuerId /\ f.followingId = x.recipientId

\* a like was notified; the unlike removed row and notification; another
\* like is notified now
C27_Witness ==
    /\ Len(reqs) = 4
    /\ \A i \in DOMAIN reqs : reqs[i].pc = "done" /\ reqs[i].status = Success(reqs[i].ep)
    /\ reqs[1].ep = "likes.POST" /\ reqs[1].user = "u2" /\ reqs[1].arg = PostId(1)
    /\ reqs[2].ep = "likes.DELETE" /\ reqs[2].user = "u2" /\ reqs[2].arg = PostId(1)
    /\ reqs[3].ep = "likes.POST" /\ reqs[3].user = "u1" /\ reqs[3].arg = PostId(2)
    /\ reqs[4].ep = "likes.POST" /\ reqs[4].user = "u1" /\ reqs[4].arg = PostId(1)
    /\ Cardinality(notification) = 1 /\ Cardinality(like) = 2

\* the relation tables after the first j requests
RECURSIVE After(_)
After(j) ==
    IF j = 0 THEN InitialDB(scope)
    ELSE IF reqs[j].pc = "done" /\ reqs[j].status = Success(reqs[j].ep)
    THEN ApplyAll(After(j - 1), Stmts(reqs[j]))
    ELSE After(j - 1)

\* d is the DELETE that undoes the POST p
Undoes(d, p) ==
    /\ \/ d.ep = "likes.DELETE" /\ p.ep = "likes.POST"
       \/ d.ep = "followers.DELETE" /\ p.ep = "followers.POST"
    /\ d.user = p.user /\ d.arg = p.arg

\* the viewer of r has the relation row r is about
HasRelation(db, r) ==
    IF r.ep \in {"likes.POST", "likes.DELETE"} THEN LikeRows(db, r.user, r.arg) # {}
    ELSE FollowRows(db, r.user, r.arg) # {}

\* requests j+1 .. k are one or more POSTs of one viewer on one target and
\* then the DELETE that undoes them, from a state without the relation row
RoundTrip(j, k) ==
    /\ j + 2 <= k
    /\ \A i \in (j + 1)..k : reqs[i].pc = "done" /\ reqs[i].status = Success(reqs[i].ep)
    /\ \A i \in (j + 1)..(k - 1) : Undoes(reqs[k], reqs[i])
    /\ ~HasRelation(After(j), reqs[k])

\* C28: from a state in which viewer V has no like on post P (does not
\* follow user U), one or more like POSTs and then one like DELETE by V on P
\* (follow POSTs and then one follow DELETE on U) restore the likes, follows
\* and notifications of the store to exactly the starting state.
C28_RoundTripRestores ==
    /\ (\A i \in DOMAIN reqs : reqs[i].pc = "done") => After(Len(reqs)) = DB
    /\ \A k \in DOMAIN reqs : \A j \in 0..(k - 1) :
          RoundTrip(j, k) =>
              /\ After(k).like = After(j).like
              /\ After(k).follow = After(j).follow
              /\ After(k).notification = After(j).notification

\* two follow POSTs left two notifications, and the unfollow removed the
\* follow and both, in a store that holds another follow
C28_Witness ==
    /\ Len(reqs) = 4
    /\ reqs[1].ep = "followers.POST" /\ reqs[1].user = "u2" /\ reqs[1].arg = "u1"
    /\ RoundTrip(1, 4)
    /\ reqs[4].user = "u1" /\ reqs[4].arg = "u2"
    /\ Cardinality(After(3).notification) = 3
    /\ Cardinality(notification) = 1 /\ Cardinality(follow) = 1

----------------------------------------------------------------------------
(* Claims about the filters of the pagers and about inserts during a walk. *)

\* C29: the filtered pagers return only records that satisfy their filter,
\* on every page and for every cursor value, a cursor that names a record
\* outside the filter included: the bookmarks feed only posts the viewer has
\* a bookmark row for, the user-posts feed only posts of the path userId,
\* the comments page only comments of the path postId.
C29_PagesWithinFilter ==
    [][(walk' # walk /\ walk'.resp.status = 200
          /\ walk'.site \in {"bookmarks", "user-posts", "comments"}) =>
          LET res == walk'.resp
          IN  /\ \A k \in 1..Len(res.page) :
                    res.page[k] \in {r.id : r \in Collection(walk'.site, walk'.user, walk'.arg)}
              /\ Len(ItemsOf(res)) = Len(res.page)
              /\ walk'.site = "bookmarks" =>
                    \A k \in 1..Len(res.posts) :
                        \E b \in bookmark : b.userId = walk'.user /\ b.postId = res.posts[k].id
              /\ walk'.site = "user-posts" =>
                    \A k \in 1..Len(res.posts) : res.posts[k].user.id = walk'.arg
              /\ walk'.site = "comments" =>
                    \A k \in 1..Len(res.comments) :
                        \E c \in comment : c.id = res.comments[k].id /\ c.postId = walk'.arg]_vars

\* a fetch of the posts of one user from a cursor that names a post of the
\* other user returned posts
C29_Witness ==
    /\ walk.site = "user-posts" /\ walk.resp.status = 200
    /\ Len(walk.pages) = 1
    /\ walk.start # NoCursor
    /\ \E p \in post : p.id = walk.start /\ p.userId # walk.arg
    /\ Len(walk.resp.page) >= 2

----------------------------------------------------------------------------
(* Posts created while a client walks a feed.  A new post gets the next    *)
(* id and a createdAt later than that of every row created before it.      *)

FeedSites == {"for-you", "user-posts", "search"}

\* one post is created between two requests of the walk
InsertPost(userId, words) ==
    /\ walk.state = "open"
    /\ version < MaxInserts
    /\ post' = post \cup {[id |-> PostId(clock + 1), userId |-> userId,
                           createdAt |-> clock + 1, words |-> words]}
    /\ clock' = clock + 1
    /\ version' = version + 1
    /\ UNCHANGED <<comment, bookmark, like, follow, notification, tiebreak,
                   scope, outside, reqs, walk>>

NextInsert ==
    \/ \E site \in FeedSites, user \in Users :
          \E arg \in PagerArgs(site) : WalkStart(site, user, arg, NoCursor)
    \/ WalkNext
    \/ \E userId \in Users, words \in {{"a"}, {"c"}} : InsertPost(userId, words)

SpecInsert == InitEdge /\ [][NextInsert]_vars

\* the records of the walked collection that existed when the walk began
ExistedAtStart == {r \in WalkCollection : r.createdAt <= walk.began}

\* a walk from the newest record during which posts were created
WalkedOverInserts == walk.state \in {"open", "done"} /\ walk.start = NoCursor /\ version > 0

\* C30: when records with a newer createdAt are inserted between the page
\* fetches of a cursor-follow traversal of a descending feed, and no record
\* is deleted, every record that existed when the traversal began is
\* returned exactly once and no record is returned twice.
C30_InsertsKeepTraversal ==
    WalkedOverInserts =>
        /\ NoDup(Concat(walk.pages))
        /\ walk.state = "done" =>
              {r.id : r \in ExistedAtStart} \subseteq SeqToSet(Concat(walk.pages))

\* the same for collections whose records have pairwise distinct createdAt:
\* the records that existed at the start are exactly what the walk returns,
\* newest first, and none of the records created since
C30_InsertsKeepDistinctTraversal ==
    (WalkedOverInserts /\ ~HasTies) =>
        /\ NoDup(Concat(walk.pages))
        /\ walk.state = "done" =>
              IsWholeDescending(Concat(walk.pages), ExistedAtStart, walk.site)

C30_DistinctWitness ==
    /\ WalkedOverInserts
    /\ ~HasTies
    /\ walk.state = "done"
    /\ Len(walk.pages) = 2
    /\ WalkCollection # ExistedAtStart

====
